---------------------------- MODULE Spec2Model ----------------------------
(***************************************************************************)
(* Model of the OpenRouter chat provider for VS Code.                      *)
(*                                                                         *)
(* Text is a sequence of one-character strings, so that trimming, JSON     *)
(* parsing and JSON printing are computed character by character.          *)
(* An optional value (undefined / null in the source) is the empty tuple   *)
(* None, a present value x is the one-element tuple Some(x).               *)
(***************************************************************************)
EXTENDS Integers, Sequences, FiniteSets, TLC

VARIABLES
    state,            \* position of the request: Idle, Streaming, Completed, Cancelled, Failed
    events,           \* what progress.report received, in order (each tagged with its origin)
    thinkingActive,   \* provider.ts:174
    reportedText,     \* provider.ts:175
    reportedToolCall, \* provider.ts:176
    toolCallAccum,    \* provider.ts:177, a Map in insertion order
    cancelled,        \* the host's CancellationToken
    aborted,          \* controller.signal.aborted
    failure,          \* message of the error the request rejected with
    delivered,        \* history: the chunks the stream has yielded so far
    hostMessages,     \* the messages argument of provideLanguageModelChatResponse
    systemPrompt,     \* the openrouter.systemPrompt setting
    translated,       \* orMessages as the message translation returned it
    sent,             \* the messages handed to the streaming transport
    secret,           \* the secret store's "openrouter.apiKey"
    cachedModels,     \* provider.ts:57, this._cachedModels
    modelFilter,      \* the openrouter.modelFilter setting
    calls,            \* the calls in flight on the provider instance, each with its position
    network,          \* history: the network requests made, in order
    reqs              \* the locals of chat requests running side by side

vars == << state, events, thinkingActive, reportedText, reportedToolCall,
           toolCallAccum, cancelled, aborted, failure, delivered,
           hostMessages, systemPrompt, translated, sent,
           secret, cachedModels, modelFilter, calls, network, reqs >>

streamVars == << state, events, thinkingActive, reportedText, reportedToolCall,
                 toolCallAccum, cancelled, aborted, failure, delivered >>

sendVars == << hostMessages, systemPrompt, translated, sent >>

instanceVars == << secret, cachedModels, modelFilter, calls, network, reqs >>

-----------------------------------------------------------------------------
(* Optional values and text                                                *)

None == << >>

Some(x) == << x >>

IsSome(o) == o /= << >>

Val(o) == o[1]

\* JavaScript truthiness of an optional string: present and not empty.
Truthy(o) == IsSome(o) /\ Val(o) /= << >>

IsWs(c) == c = " "

RECURSIVE TrimStart(_)
TrimStart(s) == IF s /= << >> /\ IsWs(Head(s)) THEN TrimStart(Tail(s)) ELSE s

RECURSIVE TrimEnd(_)
TrimEnd(s) ==
    IF s /= << >> /\ IsWs(s[Len(s)]) THEN TrimEnd(SubSeq(s, 1, Len(s) - 1)) ELSE s

\* String.prototype.trim
Trim(s) == TrimEnd(TrimStart(s))

-----------------------------------------------------------------------------
(* JSON.parse and JSON.stringify for numbers, strings without escapes,    *)
(* arrays and objects, computed as a recursive-descent parser.            *)

JNum(n) == [jt |-> "num", num |-> n, str |-> << >>, sub |-> << >>]

JStr(s) == [jt |-> "str", num |-> 0, str |-> s, sub |-> << >>]

JArr(items) == [jt |-> "arr", num |-> 0, str |-> << >>, sub |-> items]

\* members: a sequence of [key |-> text, val |-> value] in insertion order
JObj(members) == [jt |-> "obj", num |-> 0, str |-> << >>, sub |-> members]

EmptyObject == JObj(<< >>)

ParseFail == [ok |-> FALSE, val |-> JNum(0), pos |-> 0]

ParseOk(v, p) == [ok |-> TRUE, val |-> v, pos |-> p]

DigitChars == << "0", "1", "2", "3", "4", "5", "6", "7", "8", "9" >>

Digits == {DigitChars[k] : k \in 1..10}

DigitVal(c) == (CHOOSE k \in 1..10 : DigitChars[k] = c) - 1

RECURSIVE SkipWs(_, _)
SkipWs(s, i) == IF i <= Len(s) /\ IsWs(s[i]) THEN SkipWs(s, i + 1) ELSE i

RECURSIVE ParseDigits(_, _, _)
ParseDigits(s, i, n) ==
    IF i <= Len(s) /\ s[i] \in Digits
    THEN ParseDigits(s, i + 1, 10 * n + DigitVal(s[i]))
    ELSE ParseOk(JNum(n), i)

\* a JSON number: no leading zero
ParseNumber(s, i) ==
    IF s[i] = "0" THEN ParseOk(JNum(0), i + 1) ELSE ParseDigits(s, i, 0)

RECURSIVE FindQuote(_, _)
FindQuote(s, i) ==
    IF i > Len(s) THEN 0 ELSE IF s[i] = "\"" THEN i ELSE FindQuote(s, i + 1)

\* a JSON string without escapes, s[i] is the opening quote
ParseString(s, i) ==
    LET j == FindQuote(s, i + 1)
    IN  IF j = 0 THEN ParseFail ELSE ParseOk(JStr(SubSeq(s, i + 1, j - 1)), j + 1)

\* an object keeps one member per key, the last value written wins
RECURSIVE PutMember(_, _, _)
PutMember(members, k, v) ==
    IF members = << >> THEN << [key |-> k, val |-> v] >>
    ELSE IF Head(members).key = k THEN << [key |-> k, val |-> v] >> \o Tail(members)
    ELSE << Head(members) >> \o PutMember(Tail(members), k, v)

RECURSIVE ParseValue(_, _)
RECURSIVE ParseElements(_, _, _)
RECURSIVE ParseMembers(_, _, _)

ParseElements(s, i, acc) ==
    LET r == ParseValue(s, SkipWs(s, i))
        k == SkipWs(s, r.pos)
    IN  IF ~r.ok \/ k > Len(s) THEN ParseFail
        ELSE IF s[k] = "," THEN ParseElements(s, k + 1, Append(acc, r.val))
        ELSE IF s[k] = "]" THEN ParseOk(JArr(Append(acc, r.val)), k + 1)
        ELSE ParseFail

ParseMembers(s, i, acc) ==
    LET q == SkipWs(s, i)
        key == IF q <= Len(s) /\ s[q] = "\"" THEN ParseString(s, q) ELSE ParseFail
        c == SkipWs(s, key.pos)
        r == ParseValue(s, SkipWs(s, c + 1))
        k == SkipWs(s, r.pos)
    IN  IF ~key.ok \/ c > Len(s) THEN ParseFail
        ELSE IF s[c] /= ":" THEN ParseFail
        ELSE IF ~r.ok \/ k > Len(s) THEN ParseFail
        ELSE IF s[k] = ","
             THEN ParseMembers(s, k + 1, PutMember(acc, key.val.str, r.val))
        ELSE IF s[k] = "}"
             THEN ParseOk(JObj(PutMember(acc, key.val.str, r.val)), k + 1)
        ELSE ParseFail

ParseValue(s, i) ==
    IF i > Len(s) THEN ParseFail
    ELSE IF s[i] = "{"
         THEN LET j == SkipWs(s, i + 1)
              IN  IF j <= Len(s) /\ s[j] = "}" THEN ParseOk(EmptyObject, j + 1)
                  ELSE ParseMembers(s, i + 1, << >>)
    ELSE IF s[i] = "["
         THEN LET j == SkipWs(s, i + 1)
              IN  IF j <= Len(s) /\ s[j] = "]" THEN ParseOk(JArr(<< >>), j + 1)
                  ELSE ParseElements(s, i + 1, << >>)
    ELSE IF s[i] = "\"" THEN ParseString(s, i)
    ELSE IF s[i] \in Digits THEN ParseNumber(s, i)
    ELSE ParseFail

\* JSON.parse(s): ok is FALSE where JSON.parse throws a SyntaxError
JsonParse(s) ==
    LET r == ParseValue(s, SkipWs(s, 1))
    IN  IF r.ok /\ SkipWs(s, r.pos) = Len(s) + 1 THEN r ELSE ParseFail

IsJson(s) == JsonParse(s).ok

RECURSIVE NatText(_)
NatText(n) ==
    IF n < 10 THEN << DigitChars[n + 1] >>
    ELSE NatText(n \div 10) \o NatText(n % 10)

RECURSIVE JsonStringify(_)
RECURSIVE StringifyItems(_)
RECURSIVE StringifyMembers(_)

StringifyItems(items) ==
    IF items = << >> THEN << >>
    ELSE JsonStringify(Head(items))
         \o (IF Len(items) > 1 THEN << "," >> \o StringifyItems(Tail(items)) ELSE << >>)

StringifyMembers(members) ==
    IF members = << >> THEN << >>
    ELSE << "\"" >> \o Head(members).key \o << "\"", ":" >>
         \o JsonStringify(Head(members).val)
         \o (IF Len(members) > 1 THEN << "," >> \o StringifyMembers(Tail(members))
             ELSE << >>)

\* JSON.stringify(v)
JsonStringify(v) ==
    IF v.jt = "num" THEN NatText(v.num)
    ELSE IF v.jt = "str" THEN << "\"" >> \o v.str \o << "\"" >>
    ELSE IF v.jt = "arr" THEN << "[" >> \o StringifyItems(v.sub) \o << "]" >>
    ELSE << "{" >> \o StringifyMembers(v.sub) \o << "}" >>


-----------------------------------------------------------------------------
(* Response parts and the progress sink                                    *)

\* new vscode.LanguageModelThinkingPart(value, "", done ? {vscode_reasoning_done: true} : {})
ThinkingPart(value, done) ==
    [kind |-> "thinking", value |-> value, done |-> done,
     callId |-> << >>, name |-> << >>, input |-> EmptyObject]

\* new vscode.LanguageModelTextPart(value)
TextPart(value) ==
    [kind |-> "text", value |-> value, done |-> FALSE,
     callId |-> << >>, name |-> << >>, input |-> EmptyObject]

\* new vscode.LanguageModelToolCallPart(callId, name, input)
ToolCallPart(callId, name, input) ==
    [kind |-> "toolCall", value |-> << >>, done |-> FALSE,
     callId |-> callId, name |-> name, input |-> input]

\* where an event comes from: the chunk, choice and tool-call fragment being
\* processed when it was reported (0 where there is none) and the reporting
\* statement
At(chunk, choice, frag, site) ==
    [chunk |-> chunk, choice |-> choice, frag |-> frag, site |-> site]

\* progress.report(part)
Report(L, part, at) == [L EXCEPT !.events = Append(@, [part |-> part, at |-> at])]

-----------------------------------------------------------------------------
(* provideLanguageModelChatResponse, OpenAI-compatible transport:          *)
(* the body of the chunk loop                                              *)

RECURSIVE AccPos(_, _)
\* toolCallAccum.get(index): the position of the entry, 0 when there is none
AccPos(accum, index) ==
    IF accum = << >> THEN 0
    ELSE IF accum[Len(accum)].index = index THEN Len(accum)
    ELSE AccPos(SubSeq(accum, 1, Len(accum) - 1), index)

NewAcc(index) == [index |-> index, id |-> << >>, name |-> << >>, argsStr |-> << >>]

\* ThinkingStep without the closing branch
ThinkingStepNeverCloses(L, delta, at) ==
    IF Truthy(delta.reasoning)
    THEN [Report(L, ThinkingPart(Val(delta.reasoning), FALSE),
                 [at EXCEPT !.site = "reasoning"])
             EXCEPT !.thinkingActive = TRUE]
    ELSE L

\* provider.ts:185-192
ThinkingStep(L, delta, at) ==
    IF Truthy(delta.reasoning)
    THEN [Report(L, ThinkingPart(Val(delta.reasoning), FALSE),
                 [at EXCEPT !.site = "reasoning"])
             EXCEPT !.thinkingActive = TRUE]
    ELSE IF L.thinkingActive
    THEN [Report(L, ThinkingPart(<< >>, TRUE), [at EXCEPT !.site = "reasoningDone"])
             EXCEPT !.thinkingActive = FALSE]
    ELSE L

\* provider.ts:194-197
TextStep(L, delta, at) ==
    IF IsSome(delta.content) /\ Trim(Val(delta.content)) /= << >>
    THEN [Report(L, TextPart(Val(delta.content)), [at EXCEPT !.site = "text"])
             EXCEPT !.reportedText = TRUE]
    ELSE L

\* provider.ts:202-211: look up or create the accumulator and update it
Accumulate(accum, toolCall) ==
    LET index == IF IsSome(toolCall.index) THEN Val(toolCall.index) ELSE 0
        found == AccPos(accum, index)
        table == IF found = 0 THEN Append(accum, NewAcc(index)) ELSE accum
        pos == IF found = 0 THEN Len(table) ELSE found
    IN  [table EXCEPT ![pos] =
            [@ EXCEPT
                !.id = IF IsSome(toolCall.id) /\ Val(toolCall.id) /= << >>
                       THEN Val(toolCall.id) ELSE @,
                !.name = IF IsSome(toolCall.name) /\ Val(toolCall.name) /= << >>
                         THEN Val(toolCall.name) ELSE @,
                !.argsStr = IF IsSome(toolCall.arguments)
                            THEN @ \o Val(toolCall.arguments) ELSE @]]

\* EmitToolCall reporting an empty object where JSON.parse throws
EmitToolCallUnparsed(L, acc, at) ==
    [Report(L,
            ToolCallPart(acc.id, acc.name,
                         IF IsJson(acc.argsStr) THEN JsonParse(acc.argsStr).val
                         ELSE EmptyObject),
            [at EXCEPT !.site = "toolCall"])
        EXCEPT !.reportedToolCall = TRUE]

\* provider.ts:213-220: report the tool call unless JSON.parse throws
EmitToolCall(L, acc, at) ==
    IF acc.argsStr /= << >> /\ ~IsJson(acc.argsStr)
    THEN L
    ELSE [Report(L,
                 ToolCallPart(acc.id, acc.name,
                              IF acc.argsStr /= << >> THEN JsonParse(acc.argsStr).val
                              ELSE EmptyObject),
                 [at EXCEPT !.site = "toolCall"])
             EXCEPT !.reportedToolCall = TRUE]

\* provider.ts:201-221, one iteration
ToolCallStep(L, toolCall, at) ==
    LET index == IF IsSome(toolCall.index) THEN Val(toolCall.index) ELSE 0
        table == Accumulate(L.accum, toolCall)
    IN  EmitToolCall([L EXCEPT !.accum = table], table[AccPos(table, index)], at)

RECURSIVE ToolCallsLoop(_, _, _, _)
\* provider.ts:199-222
ToolCallsLoop(L, toolCalls, at, f) ==
    IF f > Len(toolCalls) THEN L
    ELSE ToolCallsLoop(ToolCallStep(L, toolCalls[f], [at EXCEPT !.frag = f]),
                       toolCalls, at, f + 1)

\* provider.ts:182-222, one choice
ProcessChoice(L, choice, at) ==
    IF ~IsSome(choice.delta) THEN L
    ELSE LET delta == Val(choice.delta)
         IN  ToolCallsLoop(TextStep(ThinkingStep(L, delta, at), delta, at),
                           delta.tool_calls, at, 1)

RECURSIVE ChoicesLoop(_, _, _, _)
\* provider.ts:181-223
ChoicesLoop(L, choices, c, k) ==
    IF k > Len(choices) THEN L
    ELSE ChoicesLoop(ProcessChoice(L, choices[k], At(c, k, 0, "")), choices, c, k + 1)

\* provider.ts:180-224, one chunk: chunk.choices ?? []
ProcessChunk(L, chunk, c) ==
    ChoicesLoop(L, IF IsSome(chunk.choices) THEN Val(chunk.choices) ELSE << >>, c, 1)

-----------------------------------------------------------------------------
(* provideLanguageModelChatResponse, OpenAI-compatible transport:          *)
(* after the chunk loop                                                    *)

RECURSIVE EndFallbacksForAll(_, _)
\* EndFallbacks without the parse attempt
EndFallbacksForAll(L, i) ==
    IF i > Len(L.accum) THEN L
    ELSE LET acc == L.accum[i]
         IN  IF acc.argsStr = << >>
             THEN EndFallbacksForAll(L, i + 1)
             ELSE EndFallbacksForAll(
                      [Report(L, ToolCallPart(acc.id, acc.name, EmptyObject),
                              At(0, 0, i, "fallback"))
                          EXCEPT !.reportedToolCall = TRUE],
                      i + 1)

\* EndFallbacks reporting nothing
EndFallbacksNone(L, i) == L

RECURSIVE EndFallbacks(_, _)
\* provider.ts:226-234, from the i-th accumulator on, in Map order
EndFallbacks(L, i) ==
    IF i > Len(L.accum) THEN L
    ELSE LET acc == L.accum[i]
         IN  IF acc.argsStr = << >> \/ IsJson(acc.argsStr)
             THEN EndFallbacks(L, i + 1)
             ELSE EndFallbacks(
                      [Report(L, ToolCallPart(acc.id, acc.name, EmptyObject),
                              At(0, 0, i, "fallback"))
                          EXCEPT !.reportedToolCall = TRUE],
                      i + 1)

\* EndThinking leaving an open segment open
EndThinkingLeavesOpen(L) == L

\* provider.ts:236-238
EndThinking(L) ==
    IF L.thinkingActive
    THEN Report(L, ThinkingPart(<< >>, TRUE), At(0, 0, 0, "close"))
    ELSE L

\* EndPlaceholder that looks at reportedText only
EndPlaceholderIgnoresToolCalls(L) ==
    IF ~L.reportedText
    THEN Report(L, TextPart(<< " " >>), At(0, 0, 0, "placeholder"))
    ELSE L

\* provider.ts:240-242
EndPlaceholder(L) ==
    IF ~L.reportedText /\ ~L.reportedToolCall
    THEN Report(L, TextPart(<< " " >>), At(0, 0, 0, "placeholder"))
    ELSE L

\* FinishStream closing the thinking segment before the fallbacks
FinishStreamClosesFirst(L) == EndPlaceholder(EndFallbacks(EndThinking(L), 1))

\* provider.ts:226-242
FinishStream(L) == EndPlaceholder(EndThinking(EndFallbacks(L, 1)))


-----------------------------------------------------------------------------
(* Host messages and OpenRouterAdapter.vscodeMessagesToOpenRouter          *)

HostPart(kind, value, callId, name, json, mimeType, data) ==
    [kind |-> kind, value |-> value, callId |-> callId, name |-> name,
     json |-> json, mimeType |-> mimeType, data |-> data]

\* vscode.LanguageModelTextPart
HText(value) == HostPart("text", value, << >>, << >>, EmptyObject, << >>, << >>)

\* vscode.LanguageModelToolResultPart
HToolResult(callId, content) ==
    HostPart("toolResult", << >>, callId, << >>, content, << >>, << >>)

\* vscode.LanguageModelToolCallPart
HToolCall(callId, name, input) ==
    HostPart("toolCall", << >>, callId, name, input, << >>, << >>)

\* vscode.LanguageModelDataPart
HData(mimeType, data) == HostPart("data", << >>, << >>, << >>, EmptyObject, mimeType, data)

\* any other content part
HOther == HostPart("other", << >>, << >>, << >>, EmptyObject, << >>, << >>)

HostMessage(role, content) == [role |-> role, content |-> content]

\* a provider message; src names the host message and part it was made from
\* (<< 0, 0 >> for a message the provider adds itself)
OrMessage(role, content, toolCallId, toolCalls, image, src) ==
    [role |-> role, content |-> content, toolCallId |-> toolCallId,
     toolCalls |-> toolCalls, image |-> image, src |-> src]

\* adapter.ts:43-52
ConvertRole(role) ==
    IF role = "User" THEN "user"
    ELSE IF role = "Assistant" THEN "assistant"
    ELSE "system"

StartsWith(s, prefix) ==
    Len(s) >= Len(prefix) /\ SubSeq(s, 1, Len(prefix)) = prefix

Base64Chars ==
    << "A", "B", "C", "D", "E", "F", "G", "H", "I", "J", "K", "L", "M", "N", "O", "P",
       "Q", "R", "S", "T", "U", "V", "W", "X", "Y", "Z", "a", "b", "c", "d", "e", "f",
       "g", "h", "i", "j", "k", "l", "m", "n", "o", "p", "q", "r", "s", "t", "u", "v",
       "w", "x", "y", "z", "0", "1", "2", "3", "4", "5", "6", "7", "8", "9", "+", "/" >>

RECURSIVE Btoa(_)
\* btoa of the string whose character codes are the given bytes
Btoa(bytes) ==
    IF bytes = << >> THEN << >>
    ELSE LET b1 == bytes[1]
             b2 == IF Len(bytes) >= 2 THEN bytes[2] ELSE 0
             b3 == IF Len(bytes) >= 3 THEN bytes[3] ELSE 0
             n == (b1 * 256 + b2) * 256 + b3
             c(k) == Base64Chars[((n \div k) % 64) + 1]
         IN  << c(262144), c(4096),
                IF Len(bytes) >= 2 THEN c(64) ELSE "=",
                IF Len(bytes) >= 3 THEN c(1) ELSE "=" >>
             \o (IF Len(bytes) > 3 THEN Btoa(SubSeq(bytes, 4, Len(bytes))) ELSE << >>)

ImagePrefix == << "i", "m", "a", "g", "e", "/" >>

\* adapter.ts:105
DataUrl(mimeType, data) ==
    << "d", "a", "t", "a", ":" >> \o mimeType
        \o << ";", "b", "a", "s", "e", "6", "4", "," >> \o Btoa(data)

\* as ConvertPart, but with no test of the MIME type of a data part
ConvertPartAnyData(role, element, src) ==
    IF element.kind = "text"
    THEN << OrMessage(ConvertRole(role), Some(element.value), None, << >>, None, src) >>
    ELSE IF element.kind = "toolResult"
    THEN << OrMessage("tool", Some(JsonStringify(element.json)), Some(element.callId),
                      << >>, None, src) >>
    ELSE IF element.kind = "toolCall"
    THEN << OrMessage("assistant", None, None,
                      << [id |-> element.callId, type |-> "function",
                          name |-> element.name,
                          arguments |-> JsonStringify(element.json)] >>,
                      None, src) >>
    ELSE IF element.kind = "data"
    THEN << OrMessage(ConvertRole(role), None, None, << >>,
                      Some(DataUrl(element.mimeType, element.data)), src) >>
    ELSE << >>

\* adapter.ts:61-112: the provider messages one content part yields
ConvertPart(role, element, src) ==
    IF element.kind = "text"
    THEN IF ConvertRole(role) /= "tool"
         THEN << OrMessage(ConvertRole(role), Some(element.value), None, << >>, None, src) >>
         ELSE << >>
    ELSE IF element.kind = "toolResult"
    THEN << OrMessage("tool", Some(JsonStringify(element.json)), Some(element.callId),
                      << >>, None, src) >>
    ELSE IF element.kind = "toolCall"
    THEN << OrMessage("assistant", None, None,
                      << [id |-> element.callId, type |-> "function",
                          name |-> element.name,
                          arguments |-> JsonStringify(element.json)] >>,
                      None, src) >>
    ELSE IF element.kind = "data" /\ StartsWith(element.mimeType, ImagePrefix)
    THEN << OrMessage(ConvertRole(role), None, None, << >>,
                      Some(DataUrl(element.mimeType, element.data)), src) >>
    ELSE << >>

RECURSIVE ConvertParts(_, _, _, _)
\* adapter.ts:60-113
ConvertParts(role, content, m, p) ==
    IF p > Len(content) THEN << >>
    ELSE ConvertPart(role, content[p], << m, p >>) \o ConvertParts(role, content, m, p + 1)

RECURSIVE ConvertMessages(_, _)
ConvertMessages(messages, m) ==
    IF m > Len(messages) THEN << >>
    ELSE ConvertParts(messages[m].role, messages[m].content, m, 1)
         \o ConvertMessages(messages, m + 1)

\* adapter.ts:55-116
VscodeMessagesToOpenRouter(messages) == ConvertMessages(messages, 1)

RECURSIVE WithoutSystem(_)
\* orMessages.filter((msg) => msg.role !== "system")
WithoutSystem(msgs) ==
    IF msgs = << >> THEN << >>
    ELSE (IF Head(msgs).role /= "system" THEN << Head(msgs) >> ELSE << >>)
         \o WithoutSystem(Tail(msgs))

\* provider.ts:143-146: the setting, trimmed
SystemPromptOverride(setting) == IF IsSome(setting) THEN Some(Trim(Val(setting))) ELSE None

\* provider.ts:147-150 (and 325-328)
ApplySystemPrompt(orMessages, setting) ==
    IF Truthy(SystemPromptOverride(setting))
    THEN << OrMessage("system", Some(Val(SystemPromptOverride(setting))), None, << >>,
                      None, << 0, 0 >>) >>
         \o WithoutSystem(orMessages)
    ELSE orMessages


-----------------------------------------------------------------------------
(* The inputs the model draws from                                         *)

\* chunks one stream may deliver
MaxChunks == 3

\* host messages one request may carry
MaxMessages == 2

Fragment(index, id, name, arguments) ==
    [index |-> index, id |-> id, name |-> name, arguments |-> arguments]

\* a delta; tool_calls is the empty sequence where the source has none
Delta(reasoning, content, toolCalls) ==
    [reasoning |-> reasoning, content |-> content, tool_calls |-> toolCalls]

Choice(delta) == [delta |-> delta]

Chunk(error, choices) == [error |-> error, choices |-> choices]

OneDelta(delta) == Chunk(None, Some(<< Choice(Some(delta)) >>))

ArgsOpen == << "{", "\"", "x", "\"", ":" >>

ArgsClose == << "1", "}" >>

\* index 0 (left out), id and name with the first half of {"x":1}
FragOpen == Fragment(None, Some(<< "a" >>), Some(<< "f" >>), Some(ArgsOpen))

FragClose == Fragment(Some(0), None, None, Some(ArgsClose))

\* id and name only
FragHead == Fragment(Some(1), Some(<< "b" >>), Some(<< "g" >>), None)

FragEmptyObject == Fragment(Some(1), None, None, Some(<< "{", "}" >>))

FragBrace == Fragment(Some(1), None, None, Some(<< "}" >>))

\* empty id, name and arguments
FragBlank == Fragment(Some(0), Some(<< >>), Some(<< >>), Some(<< >>))

\* a later id for index 0
FragRename == Fragment(Some(0), Some(<< "c" >>), None, None)

Fragments ==
    {FragOpen, FragClose, FragHead, FragEmptyObject, FragBrace, FragBlank, FragRename}

Think == << "t" >>

Hello == << "h", "i" >>

Deltas ==
    {Delta(Some(Think), None, << >>),
     Delta(Some(Think), Some(Hello), << >>),
     Delta(Some(Think), None, << FragHead >>),
     Delta(Some(<< >>), None, << >>),
     Delta(None, Some(Hello), << >>),
     Delta(None, Some(<< " " >>), << >>),
     Delta(None, Some(Hello), << FragOpen, FragClose >>)}
    \cup {Delta(None, None, << f >>) : f \in Fragments}

RateLimited == << "r", "l" >>

Chunks ==
    {OneDelta(d) : d \in Deltas}
    \cup {Chunk(None, None),
          Chunk(None, Some(<< Choice(None) >>)),
          Chunk(None, Some(<< Choice(Some(Delta(Some(Think), None, << >>))),
                              Choice(Some(Delta(None, Some(Hello), << >>))) >>)),
          Chunk(Some([message |-> Some(RateLimited)]), None),
          Chunk(Some([message |-> None]),
                Some(<< Choice(Some(Delta(None, Some(Hello), << >>))) >>))}

UserText == HostMessage("User", << HText(Hello) >>)

\* the message lists of the streamed requests
StreamMessages == {<< >>, << UserText >>}

NoMessagesError == << "No messages to send." >>

TransportFailure == << "fetch failed" >>

AbortFailure == << "Request was aborted." >>

-----------------------------------------------------------------------------
(* provideLanguageModelChatResponse, OpenAI-compatible transport           *)

Locals ==
    [events |-> events, thinkingActive |-> thinkingActive,
     reportedText |-> reportedText, reportedToolCall |-> reportedToolCall,
     accum |-> toolCallAccum]

SetLocals(L) ==
    /\ events' = L.events
    /\ thinkingActive' = L.thinkingActive
    /\ reportedText' = L.reportedText
    /\ reportedToolCall' = L.reportedToolCall
    /\ toolCallAccum' = L.accum

StoredKey == << "k" >>

\* provider.ts:57-60: a provider instance right after construction, with an
\* API key in the secret store and no model filter set
InitInstance ==
    /\ secret = Some(StoredKey)
    /\ cachedModels = None
    /\ modelFilter = << >>
    /\ calls = << >>
    /\ network = << >>
    /\ reqs = << >>

InitRequest ==
    /\ state = "Idle"
    /\ events = << >>
    /\ thinkingActive = FALSE
    /\ reportedText = FALSE
    /\ reportedToolCall = FALSE
    /\ toolCallAccum = << >>
    /\ cancelled = FALSE
    /\ aborted = FALSE
    /\ failure = None
    /\ delivered = << >>
    /\ translated = << >>
    /\ sent = None

Init ==
    /\ InitInstance
    /\ InitRequest
    /\ hostMessages \in StreamMessages
    /\ systemPrompt = None

\* provider.ts:139-172: translate the messages, apply the override, register
\* the abort listener and call the transport
BeginRequest ==
    /\ state = "Idle"
    /\ LET orMessages == VscodeMessagesToOpenRouter(hostMessages)
       IN  IF Len(orMessages) = 0
           THEN /\ state' = "Failed"
                /\ failure' = Some(NoMessagesError)
                /\ sent' = sent
                /\ translated' = orMessages
           ELSE /\ state' = "Streaming"
                /\ failure' = failure
                /\ sent' = Some(ApplySystemPrompt(orMessages, systemPrompt))
                /\ translated' = orMessages
    /\ UNCHANGED << events, thinkingActive, reportedText, reportedToolCall,
                    toolCallAccum, cancelled, aborted, delivered,
                    hostMessages, systemPrompt >>
    /\ UNCHANGED instanceVars

\* provider.ts:153: the cancellation listener aborts the controller
Cancel ==
    /\ state = "Streaming"
    /\ ~cancelled
    /\ cancelled' = TRUE
    /\ aborted' = TRUE
    /\ UNCHANGED << state, events, thinkingActive, reportedText, reportedToolCall,
                    toolCallAccum, failure, delivered, sendVars >>
    /\ UNCHANGED instanceVars

\* provider.ts:180-224: the stream yields a chunk and the loop body runs;
\* a transport whose signal is aborted yields nothing more (provider.ts:171)
DeliverChunk(chunk) ==
    /\ state = "Streaming"
    /\ ~aborted
    /\ Len(delivered) < MaxChunks
    /\ delivered' = Append(delivered, chunk)
    /\ SetLocals(ProcessChunk(Locals, chunk, Len(delivered) + 1))
    /\ UNCHANGED << state, cancelled, aborted, failure, sendVars >>
    /\ UNCHANGED instanceVars

\* provider.ts:226-243: the stream is exhausted
StreamEnd ==
    /\ state = "Streaming"
    /\ SetLocals(FinishStream(Locals))
    /\ state' = "Completed"
    /\ UNCHANGED << cancelled, aborted, failure, delivered, sendVars >>
    /\ UNCHANGED instanceVars

\* provider.ts:162, 180: the transport rejects
TransportError ==
    /\ state = "Streaming"
    /\ ~aborted
    /\ state' = "Failed"
    /\ failure' = Some(TransportFailure)
    /\ UNCHANGED << events, thinkingActive, reportedText, reportedToolCall,
                    toolCallAccum, cancelled, aborted, delivered, sendVars >>
    /\ UNCHANGED instanceVars

\* provider.ts:162, 180: the aborted transport rejects
AbortReject ==
    /\ state = "Streaming"
    /\ aborted
    /\ state' = "Cancelled"
    /\ failure' = Some(AbortFailure)
    /\ UNCHANGED << events, thinkingActive, reportedText, reportedToolCall,
                    toolCallAccum, cancelled, aborted, delivered, sendVars >>
    /\ UNCHANGED instanceVars

Next ==
    \/ BeginRequest
    \/ Cancel
    \/ \E chunk \in Chunks : DeliverChunk(chunk)
    \/ StreamEnd
    \/ TransportError
    \/ AbortReject

Spec == Init /\ [][Next]_vars


-----------------------------------------------------------------------------
(* What the properties read off the history                                *)

ChoicesOf(chunk) == IF IsSome(chunk.choices) THEN Val(chunk.choices) ELSE << >>

\* the delta an event was reported for
DeltaAt(at) == Val(ChoicesOf(delivered[at.chunk])[at.choice].delta)

RECURSIVE PlacesFrom(_, _, _)
\* the places << chunk, choice, fragment >> of the tool-call fragments delivered,
\* from << c, k, f >> on, in the order the loops visit them
PlacesFrom(c, k, f) ==
    IF c > Len(delivered) THEN << >>
    ELSE IF k > Len(ChoicesOf(delivered[c])) THEN PlacesFrom(c + 1, 1, 1)
    ELSE IF ~IsSome(ChoicesOf(delivered[c])[k].delta) THEN PlacesFrom(c, k + 1, 1)
    ELSE IF f > Len(Val(ChoicesOf(delivered[c])[k].delta).tool_calls)
         THEN PlacesFrom(c, k + 1, 1)
    ELSE << << c, k, f >> >> \o PlacesFrom(c, k, f + 1)

\* the places of all tool-call fragments delivered
FragmentPlaces ==
    LET places == PlacesFrom(1, 1, 1) IN {places[i] : i \in 1..Len(places)}

FragmentAt(pl) == Val(ChoicesOf(delivered[pl[1]])[pl[2]].delta).tool_calls[pl[3]]

IndexOf(fragment) == IF IsSome(fragment.index) THEN Val(fragment.index) ELSE 0

\* place p comes before place q in the stream
Before(p, q) ==
    \/ p[1] < q[1]
    \/ p[1] = q[1] /\ p[2] < q[2]
    \/ p[1] = q[1] /\ p[2] = q[2] /\ p[3] < q[3]

RECURSIVE SameIndexUpTo(_, _)
\* of the places in order, those up to and including pl whose fragment has pl's index
SameIndexUpTo(places, pl) ==
    IF places = << >> THEN << >>
    ELSE (IF IndexOf(FragmentAt(Head(places))) = IndexOf(FragmentAt(pl))
          THEN << Head(places) >> ELSE << >>)
         \o (IF Head(places) = pl THEN << >> ELSE SameIndexUpTo(Tail(places), pl))

\* the places of the fragments for the same index up to and including pl, in order
History(pl) == SameIndexUpTo(PlacesFrom(1, 1, 1), pl)

RECURSIVE ConcatArguments(_)
ConcatArguments(places) ==
    IF places = << >> THEN << >>
    ELSE (IF IsSome(FragmentAt(Head(places)).arguments)
          THEN Val(FragmentAt(Head(places)).arguments) ELSE << >>)
         \o ConcatArguments(Tail(places))

RECURSIVE LastId(_)
LastId(places) ==
    IF places = << >> THEN << >>
    ELSE LET fr == FragmentAt(places[Len(places)])
         IN  IF IsSome(fr.id) /\ Val(fr.id) /= << >> THEN Val(fr.id)
             ELSE LastId(SubSeq(places, 1, Len(places) - 1))

RECURSIVE LastName(_)
LastName(places) ==
    IF places = << >> THEN << >>
    ELSE LET fr == FragmentAt(places[Len(places)])
         IN  IF IsSome(fr.name) /\ Val(fr.name) /= << >> THEN Val(fr.name)
             ELSE LastName(SubSeq(places, 1, Len(places) - 1))

\* the events reported right after the fragment at pl
EventsFor(pl) ==
    {i \in 1..Len(events) :
        /\ events[i].at.site = "toolCall"
        /\ << events[i].at.chunk, events[i].at.choice, events[i].at.frag >> = pl}

IsThinking(e) == e.part.kind = "thinking" /\ ~e.part.done

IsThinkingClosed(e) == e.part.kind = "thinking" /\ e.part.done

IsContent(e) == e.part.kind \in {"text", "toolCall"}

ClosedBetween(i, j) == \E k \in (i + 1)..(j - 1) : IsThinkingClosed(events[k])


-----------------------------------------------------------------------------
(* Thinking segments                                                       *)

\* C1 as stated: once a thinking event is emitted, a thinking-closed marker
\* comes before any later text or tool-call event of the request.
C1_ClosedBeforeAnyContent ==
    \A i \in 1..Len(events) : \A j \in (i + 1)..Len(events) :
        IsThinking(events[i]) /\ IsContent(events[j]) => ClosedBetween(i, j)

\* C1: once a thinking event is emitted, a thinking-closed marker comes before
\* any later text or tool-call event reported for a delta that carries no
\* reasoning fragment, and before the end-of-stream placeholder.  (Content of
\* a delta that itself carries reasoning, and the end-of-stream fallback tool
\* calls, are reported while the segment is open.)
C1_ClosedBeforeLaterContent ==
    \A i \in 1..Len(events) : \A j \in (i + 1)..Len(events) :
        /\ IsThinking(events[i])
        /\ IsContent(events[j])
        /\ \/ events[j].at.site = "placeholder"
           \/ /\ events[j].at.site \in {"text", "toolCall"}
              /\ ~Truthy(DeltaAt(events[j].at).reasoning)
        => ClosedBetween(i, j)

\* chunks [reasoning, content] gave thinking, thinking-closed, text
C1_Witness ==
    /\ delivered = << OneDelta(Delta(Some(Think), None, << >>)),
                      OneDelta(Delta(None, Some(Hello), << >>)) >>
    /\ Len(events) = 3
    /\ events[1].part = ThinkingPart(Think, FALSE)
    /\ events[2].part = ThinkingPart(<< >>, TRUE)
    /\ events[3].part = TextPart(Hello)

-----------------------------------------------------------------------------
(* Tool-call events inside the chunk loop                                  *)

\* tool-call events are reported in the order of their fragments
InFragmentOrder ==
    \A i \in 1..Len(events) : \A j \in 1..Len(events) :
        LET a == events[i].at
            b == events[j].at
        IN  /\ a.site = "toolCall"
            /\ b.site = "toolCall"
            /\ Before(<< a.chunk, a.choice, a.frag >>, << b.chunk, b.choice, b.frag >>)
            => i < j

\* C3 as stated: a tool-call event follows a fragment if and only if the
\* arguments accumulated for its index parse as JSON, and carries the current
\* id, name and the parsed input.
C3_EmittedIffParses ==
    \A pl \in FragmentPlaces :
        LET args == ConcatArguments(History(pl))
        IN  /\ (EventsFor(pl) /= {}) <=> IsJson(args)
            /\ \A i \in EventsFor(pl) :
                   events[i].part = ToolCallPart(LastId(History(pl)),
                                                 LastName(History(pl)),
                                                 JsonParse(args).val)

\* C3: a tool-call event follows a fragment if and only if the arguments
\* accumulated for its index are empty or parse as JSON; there is one such
\* event, it carries the current id and name and the parsed input (the empty
\* object when the arguments are empty), and the events follow the order of
\* the fragments.
C3_EmittedIffEmptyOrParses ==
    /\ InFragmentOrder
    /\ LET places == PlacesFrom(1, 1, 1)
       IN  \A n \in 1..Len(places) :
               LET pl == places[n]
                   history == SameIndexUpTo(places, pl)
                   args == ConcatArguments(history)
                   parsed == JsonParse(args)
                   reported == EventsFor(pl)
               IN  /\ (reported /= {}) <=> (args = << >> \/ parsed.ok)
                   /\ Cardinality(reported) <= 1
                   /\ \A i \in reported :
                          events[i].part =
                              ToolCallPart(LastId(history), LastName(history),
                                           IF args = << >> THEN EmptyObject
                                           ELSE parsed.val)

\* {"x": and 1} in two chunks gave one tool-call event, after the second
C3_Witness ==
    /\ delivered = << OneDelta(Delta(None, None, << FragOpen >>)),
                      OneDelta(Delta(None, None, << FragClose >>)) >>
    /\ Len(events) = 1
    /\ events[1].at.chunk = 2
    /\ events[1].part =
           ToolCallPart(<< "a" >>, << "f" >>,
                        JObj(<< [key |-> << "x" >>, val |-> JNum(1)] >>))

-----------------------------------------------------------------------------
(* The end of the stream                                                   *)

\* the arguments for the accumulator's index parsed at some point of the loop
ParsedInLoop(index) ==
    \E pl \in FragmentPlaces :
        /\ IndexOf(FragmentAt(pl)) = index
        /\ IsJson(ConcatArguments(History(pl)))

FallbackEvents == {i \in 1..Len(events) : events[i].at.site = "fallback"}

\* the fallback events reported for the accumulator at position a
FallbacksOf(a) == {i \in FallbackEvents : events[i].at.frag = a}

\* C4 as stated: at the end of a completed stream, a fallback tool call with an
\* empty object is reported for exactly the accumulators whose arguments are
\* not empty and never parsed inside the loop.
C4_FallbackIffNeverParsed ==
    state = "Completed" =>
        \A a \in 1..Len(toolCallAccum) :
            /\ Cardinality(FallbacksOf(a)) =
                   IF toolCallAccum[a].argsStr /= << >>
                      /\ ~ParsedInLoop(toolCallAccum[a].index)
                   THEN 1 ELSE 0
            /\ \A i \in FallbacksOf(a) :
                   events[i].part = ToolCallPart(toolCallAccum[a].id,
                                                 toolCallAccum[a].name, EmptyObject)

\* C4: at the end of a completed stream, a fallback tool call with an empty
\* object is reported for exactly the accumulators whose final arguments are
\* not empty and do not parse as JSON, one for each; none is reported before
\* the end of the stream.
C4_FallbackIffFinalUnparsable ==
    /\ state /= "Completed" => FallbackEvents = {}
    /\ state = "Completed" =>
          /\ \A i \in FallbackEvents : events[i].at.frag \in 1..Len(toolCallAccum)
          /\ \A a \in 1..Len(toolCallAccum) :
                /\ Cardinality(FallbacksOf(a)) =
                       IF toolCallAccum[a].argsStr /= << >>
                          /\ ~IsJson(toolCallAccum[a].argsStr)
                       THEN 1 ELSE 0
                /\ \A i \in FallbacksOf(a) :
                       events[i].part = ToolCallPart(toolCallAccum[a].id,
                                                     toolCallAccum[a].name,
                                                     EmptyObject)

\* a completed stream with one accumulator that got a fallback and one whose
\* arguments parse and that got none
C4_Witness ==
    /\ state = "Completed"
    /\ \E a \in 1..Len(toolCallAccum) : \E b \in 1..Len(toolCallAccum) :
          /\ FallbacksOf(a) /= {}
          /\ ~IsJson(toolCallAccum[a].argsStr)
          /\ IsJson(toolCallAccum[b].argsStr)
          /\ FallbacksOf(b) = {}

Placeholders == {i \in 1..Len(events) : events[i].part = TextPart(<< " " >>)}

ContentEvents == {i \in 1..Len(events) : IsContent(events[i])} \ Placeholders

\* C5: a completed request has reported at least one event; the single-space
\* placeholder is reported at most once, only at the end of the stream, and
\* exactly when no text and no tool call (fallbacks included) was reported.
C5_PlaceholderIffNoContent ==
    /\ state /= "Completed" => Placeholders = {}
    /\ state = "Completed" =>
          /\ Len(events) >= 1
          /\ Cardinality(Placeholders) <= 1
          /\ Placeholders \subseteq {Len(events)}
          /\ (Placeholders /= {}) <=> (ContentEvents = {})

\* a completed stream of reasoning and blank text only: thinking events, the
\* closing marker and the placeholder
C5_Witness ==
    /\ state = "Completed"
    /\ Len(delivered) >= 2
    /\ Len(events) >= 3
    /\ IsThinking(events[1])
    /\ Placeholders = {Len(events)}


-----------------------------------------------------------------------------
(* The order of the events                                                 *)

ChunkDriven(e) == e.at.site \in {"reasoning", "reasoningDone", "text", "toolCall"}

\* chunk-driven events first, then fallbacks, the closing marker, the placeholder
Rank(e) ==
    IF ChunkDriven(e) THEN 1
    ELSE IF e.at.site = "fallback" THEN 2
    ELSE IF e.at.site = "close" THEN 3
    ELSE 4

TerminalWellFormed(e) ==
    IF e.at.site = "fallback"
    THEN /\ e.at.frag \in 1..Len(toolCallAccum)
         /\ e.part = ToolCallPart(toolCallAccum[e.at.frag].id,
                                  toolCallAccum[e.at.frag].name, EmptyObject)
    ELSE IF e.at.site = "close" THEN e.part = ThinkingPart(<< >>, TRUE)
    ELSE e.part = TextPart(<< " " >>)

EventOrder ==
    /\ \A i \in 1..Len(events) :
          ~ChunkDriven(events[i]) =>
              state = "Completed" /\ TerminalWellFormed(events[i])
    /\ \A i \in 1..Len(events) : \A j \in (i + 1)..Len(events) :
          /\ Rank(events[i]) <= Rank(events[j])
          /\ ChunkDriven(events[i]) /\ ChunkDriven(events[j])
             => events[i].at.chunk <= events[j].at.chunk
          /\ events[i].at.site = "fallback" /\ events[j].at.site = "fallback"
             => events[i].at.frag < events[j].at.frag
          /\ Rank(events[i]) = Rank(events[j]) => Rank(events[i]) \in {1, 2}

\* a step only appends events: chunk-driven ones while the chunk they are
\* tagged with is processed, the others in the step that completes the request
EventsAppended ==
    /\ Len(events') >= Len(events)
    /\ SubSeq(events', 1, Len(events)) = events
    /\ \A i \in (Len(events) + 1)..Len(events') :
          IF ChunkDriven(events'[i])
          THEN /\ state = "Streaming" /\ state' = "Streaming"
               /\ Len(delivered') = Len(delivered) + 1
               /\ events'[i].at.chunk = Len(delivered')
          ELSE state = "Streaming" /\ state' = "Completed" /\ delivered' = delivered

\* C6: in a completed request the events of chunk i precede those of chunk j
\* for i < j, and the end-of-stream events come after all of them in the order
\* fallbacks (in the accumulators' iteration order), closing marker,
\* placeholder.
C6_EventOrder == [](EventOrder) /\ [][EventsAppended]_vars

\* a completed stream with a chunk-driven event, two fallbacks in insertion
\* order (not index order) and the closing marker
C6_Witness ==
    /\ state = "Completed"
    /\ Len(toolCallAccum) = 2
    /\ toolCallAccum[1].index > toolCallAccum[2].index
    /\ Cardinality(FallbackEvents) = 2
    /\ \E i \in 1..Len(events) : ChunkDriven(events[i])
    /\ events[Len(events)].at.site = "close"

-----------------------------------------------------------------------------
(* Error chunks                                                            *)

StreamErrorFallback == << "OpenRouter stream error" >>

\* the message an error object surfaces: its own, or the generic one
ErrorMessage(err) == IF IsSome(err.message) THEN Val(err.message) ELSE StreamErrorFallback

\* C2 as stated: once a chunk with an error object has arrived, the request is
\* Failed with the error's message (or the generic one), that chunk is the last
\* one processed and no event was reported for it.
C2_ErrorChunkFailsRequest ==
    \A c \in 1..Len(delivered) :
        IsSome(delivered[c].error) =>
            /\ state = "Failed"
            /\ failure = Some(ErrorMessage(Val(delivered[c].error)))
            /\ Len(delivered) = c
            /\ \A i \in 1..Len(events) : events[i].at.chunk < c


-----------------------------------------------------------------------------
(* provideLanguageModelChatResponse, OpenRouter SDK transport              *)
(* (provider.ts:303-404)                                                   *)

JsonSyntaxError == << "SyntaxError: Unexpected end of JSON input" >>

TypeErrorMessage == << "TypeError: Cannot read properties of undefined" >>

ReasoningLabel == << "r", "e", "a", "s", "o", "n", "i", "n", "g", ":", " " >>

\* the loop's outcome so far: the events, and the message of what was thrown
SdkRun(evs, thrown) == [events |-> evs, thrown |-> thrown]

SdkReport(R, part, at) == SdkRun(Append(R.events, [part |-> part, at |-> at]), R.thrown)

RECURSIVE SdkToolCallsLoop(_, _, _, _)
\* provider.ts:371-378: every fragment is parsed on its own, JSON.parse unguarded
SdkToolCallsLoop(R, toolCalls, at, f) ==
    IF IsSome(R.thrown) \/ f > Len(toolCalls) THEN R
    ELSE LET toolCall == toolCalls[f]
             text == IF IsSome(toolCall.arguments) THEN Val(toolCall.arguments)
                     ELSE << "{", "}" >>
         IN  IF ~IsJson(text) THEN SdkRun(R.events, Some(JsonSyntaxError))
             ELSE SdkToolCallsLoop(
                      SdkReport(R,
                                ToolCallPart(IF IsSome(toolCall.id) THEN Val(toolCall.id)
                                             ELSE << >>,
                                             IF IsSome(toolCall.name) THEN Val(toolCall.name)
                                             ELSE << >>,
                                             JsonParse(text).val),
                                [at EXCEPT !.frag = f, !.site = "toolCall"]),
                      toolCalls, at, f + 1)

\* provider.ts:364-369
SdkTextStep(R, delta, at) ==
    IF Truthy(delta.content)
    THEN SdkReport(R, TextPart(Val(delta.content)), [at EXCEPT !.site = "text"])
    ELSE R

\* provider.ts:380-386
SdkReasoningStep(R, delta, at) ==
    IF IsSome(R.thrown) \/ ~Truthy(delta.reasoning) THEN R
    ELSE SdkReport(R, TextPart(ReasoningLabel \o Val(delta.reasoning)),
                   [at EXCEPT !.site = "text"])

\* provider.ts:364-386, one element of chunk.choices; element.delta.toolCalls
\* of a missing delta is a TypeError
SdkProcessChoice(R, choice, at) ==
    IF ~IsSome(choice.delta) THEN SdkRun(R.events, Some(TypeErrorMessage))
    ELSE LET delta == Val(choice.delta)
         IN  SdkReasoningStep(
                 SdkToolCallsLoop(SdkTextStep(R, delta, at), delta.tool_calls, at, 1),
                 delta, at)

RECURSIVE SdkChoicesLoop(_, _, _, _)
SdkChoicesLoop(R, choices, c, k) ==
    IF IsSome(R.thrown) \/ k > Len(choices) THEN R
    ELSE SdkChoicesLoop(SdkProcessChoice(R, choices[k], At(c, k, 0, "")), choices, c, k + 1)

\* provider.ts:358-393, one chunk; iterating a missing chunk.choices is a TypeError
SdkProcessChunk(evs, chunk, c) ==
    IF IsSome(chunk.error)
    THEN SdkRun(evs, Some(IF IsSome(Val(chunk.error).message)
                          THEN Val(Val(chunk.error).message) ELSE << >>))
    ELSE IF ~IsSome(chunk.choices) THEN SdkRun(evs, Some(TypeErrorMessage))
    ELSE SdkChoicesLoop(SdkRun(evs, None), Val(chunk.choices), c, 1)

\* provider.ts:358-403: the stream yields a chunk; what the body throws is
\* rethrown with its message
SdkDeliverChunk(chunk) ==
    /\ state = "Streaming"
    /\ ~aborted
    /\ Len(delivered) < MaxChunks
    /\ delivered' = Append(delivered, chunk)
    /\ LET R == SdkProcessChunk(events, chunk, Len(delivered) + 1)
       IN  /\ events' = R.events
           /\ IF IsSome(R.thrown)
              THEN state' = "Failed" /\ failure' = R.thrown
              ELSE UNCHANGED << state, failure >>
    /\ UNCHANGED << thinkingActive, reportedText, reportedToolCall, toolCallAccum,
                    cancelled, aborted, sendVars >>
    /\ UNCHANGED instanceVars

\* provider.ts:357-396: the stream is exhausted
SdkStreamEnd ==
    /\ state = "Streaming"
    /\ state' = "Completed"
    /\ UNCHANGED << events, thinkingActive, reportedText, reportedToolCall,
                    toolCallAccum, cancelled, aborted, failure, delivered, sendVars >>
    /\ UNCHANGED instanceVars

NextSdk ==
    \/ BeginRequest
    \/ Cancel
    \/ \E chunk \in Chunks : SdkDeliverChunk(chunk)
    \/ SdkStreamEnd
    \/ TransportError
    \/ AbortReject

SpecSdk == Init /\ [][NextSdk]_vars

\* C7 as stated: argument fragments that never form valid JSON are not
\* surfaced as a failure of the request.
C7_MalformedArgumentsNeverFail ==
    state = "Failed" => failure /= Some(JsonSyntaxError)


-----------------------------------------------------------------------------
(* The message lists and settings the translation is run on                *)

SystemText == << "s" >>

OtherSystemText == << "z" >>

CallId == << "c" >>

ResultContent == JArr(<< JStr(<< "o", "k" >>) >>)

CallInput == JObj(<< [key |-> << "x" >>, val |-> JNum(1)] >>)

PngType == << "i", "m", "a", "g", "e", "/", "p", "n", "g" >>

PdfType == << "a", "p", "p", "/", "p", "d", "f" >>

HostMessages ==
    {UserText,
     HostMessage("System", << HText(SystemText) >>),
     HostMessage("System", << HText(OtherSystemText) >>),
     HostMessage("Assistant", << HText(Hello) >>),
     HostMessage("User", << HText(Hello), HToolResult(CallId, ResultContent) >>),
     HostMessage("User", << HToolResult(CallId, ResultContent) >>),
     HostMessage("System", << HToolResult(CallId, JArr(<< >>)), HText(SystemText) >>),
     HostMessage("Assistant", << HToolCall(CallId, << "f" >>, CallInput) >>),
     HostMessage("User", << HData(PngType, << 77, 97 >>), HText(Hello) >>),
     HostMessage("User", << HData(PdfType, << 77 >>) >>),
     HostMessage("User", << HOther >>),
     HostMessage("User", << >>)}

RECURSIVE ListsUpTo(_, _)
\* the sequences over S of length at most n
ListsUpTo(S, n) ==
    IF n = 0 THEN {<< >>}
    ELSE LET shorter == ListsUpTo(S, n - 1)
         IN  shorter \cup {Append(l, x) : l \in shorter, x \in S}

\* openrouter.systemPrompt: unset, empty, blank, or a text with blanks around it
SystemPrompts == {None, Some(<< >>), Some(<< " " >>), Some(<< " ", "o", " " >>)}

InitSend ==
    /\ InitInstance
    /\ InitRequest
    /\ hostMessages \in ListsUpTo(HostMessages, MaxMessages)
    /\ systemPrompt \in SystemPrompts

\* the request up to the call of the streaming transport
SpecSend == InitSend /\ [][BeginRequest]_vars

-----------------------------------------------------------------------------
(* Tool results in the translated messages                                 *)

HostParts ==
    UNION {{<< m, p >> : p \in 1..Len(hostMessages[m].content)} :
           m \in 1..Len(hostMessages)}

PartAt(mp) == hostMessages[mp[1]].content[mp[2]]

\* the provider messages made from the host part at mp
MadeFrom(mp) == {i \in 1..Len(translated) : translated[i].src = mp}

CarriesToolResult(m) ==
    \E p \in 1..Len(hostMessages[m].content) :
        hostMessages[m].content[p].kind = "toolResult"

\* C9 as stated: every tool-result part yields exactly one provider message,
\* with role "tool", the part's call id and its content as JSON text, whatever
\* the role of the host message; and no text part of a host message that
\* carries a tool result yields a provider message.
C9_ToolResultsWithoutText ==
    state /= "Idle" =>
        \A mp \in HostParts :
            /\ PartAt(mp).kind = "toolResult" =>
                   /\ Cardinality(MadeFrom(mp)) = 1
                   /\ \A i \in MadeFrom(mp) :
                          /\ translated[i].role = "tool"
                          /\ translated[i].toolCallId = Some(PartAt(mp).callId)
                          /\ translated[i].content = Some(JsonStringify(PartAt(mp).json))
            /\ PartAt(mp).kind = "text" /\ CarriesToolResult(mp[1]) =>
                   MadeFrom(mp) = {}


-----------------------------------------------------------------------------
(* provideLanguageModelChatResponse of the earlier provider                *)
(* (unnamed/part_000:84-179)                                               *)

RECURSIVE JoinValues(_)
\* part_000:106-112: the values of the parts that have one, joined
JoinValues(content) ==
    IF content = << >> THEN << >>
    ELSE (IF Head(content).kind = "text" THEN Head(content).value ELSE << >>)
         \o JoinValues(Tail(content))

RECURSIVE LegacyTranslate(_, _)
\* part_000:98-118: one message per host message whose joined text is not empty
LegacyTranslate(messages, m) ==
    IF m > Len(messages) THEN << >>
    ELSE (IF JoinValues(messages[m].content) /= << >>
          THEN << OrMessage(ConvertRole(messages[m].role),
                            Some(JoinValues(messages[m].content)),
                            None, << >>, None, << m, 0 >>) >>
          ELSE << >>)
         \o LegacyTranslate(messages, m + 1)

RECURSIVE FirstSystem(_, _)
\* orMessages.findIndex((m) => m.role === "system"), 0 when there is none
FirstSystem(msgs, i) ==
    IF i > Len(msgs) THEN 0
    ELSE IF msgs[i].role = "system" THEN i
    ELSE FirstSystem(msgs, i + 1)

\* part_000:120-136
LegacyApplySystemPrompt(orMessages, setting) ==
    IF Truthy(SystemPromptOverride(setting))
    THEN IF FirstSystem(orMessages, 1) > 0
         THEN [orMessages EXCEPT ![FirstSystem(orMessages, 1)].content =
                                     Some(Val(SystemPromptOverride(setting)))]
         ELSE << OrMessage("system", Some(Val(SystemPromptOverride(setting))), None,
                           << >>, None, << 0, 0 >>) >>
              \o orMessages
    ELSE orMessages

RECURSIVE Includes(_, _)
\* String.prototype.includes
Includes(s, word) ==
    /\ Len(s) >= Len(word)
    /\ (StartsWith(s, word) \/ Includes(Tail(s), word))

UnexpectedResponse ==
    << "OpenRouter returned an unexpected response. Check your API key, model, and try again." >>

\* part_000:166-177: the message the catch block rethrows
LegacyRethrown(msg) ==
    IF \/ Includes(msg, << "t", "r", "a", "n", "s", "f", "o", "r", "m" >>)
       \/ Includes(msg, << "p", "a", "r", "s", "e" >>)
       \/ Includes(msg, << "Z", "o", "d", "E", "r", "r", "o", "r" >>)
       \/ Includes(msg, << "v", "a", "l", "i", "d", "a", "t", "i", "o", "n" >>)
    THEN UnexpectedResponse
    ELSE msg

\* part_000:98-151: translate the messages, apply the override, call the transport
LegacyBeginRequest ==
    /\ state = "Idle"
    /\ LET orMessages == LegacyApplySystemPrompt(LegacyTranslate(hostMessages, 1),
                                                 systemPrompt)
       IN  IF Len(orMessages) = 0
           THEN /\ state' = "Failed"
                /\ failure' = Some(LegacyRethrown(NoMessagesError))
                /\ sent' = sent
           ELSE /\ state' = "Streaming"
                /\ failure' = failure
                /\ sent' = Some(orMessages)
    /\ translated' = LegacyTranslate(hostMessages, 1)
    /\ UNCHANGED << events, thinkingActive, reportedText, reportedToolCall,
                    toolCallAccum, cancelled, aborted, delivered,
                    hostMessages, systemPrompt >>
    /\ UNCHANGED instanceVars

\* part_000:89: the host cancels the token; nothing listens to it
LegacyCancel ==
    /\ state = "Streaming"
    /\ ~cancelled
    /\ cancelled' = TRUE
    /\ UNCHANGED << state, events, thinkingActive, reportedText, reportedToolCall,
                    toolCallAccum, aborted, failure, delivered, sendVars >>
    /\ UNCHANGED instanceVars

\* part_000:153-165: the stream yields a chunk and the loop body runs
LegacyDeliverChunk(chunk) ==
    /\ state = "Streaming"
    /\ Len(delivered) < MaxChunks
    /\ delivered' = Append(delivered, chunk)
    /\ IF cancelled
       THEN state' = "Cancelled" /\ UNCHANGED << events, failure >>
       ELSE IF IsSome(chunk.error)
       THEN /\ state' = "Failed"
            /\ failure' = Some(LegacyRethrown(ErrorMessage(Val(chunk.error))))
            /\ events' = events
       ELSE LET choices == ChoicesOf(chunk)
                delta == IF Len(choices) >= 1 THEN choices[1].delta ELSE None
                content == IF IsSome(delta) THEN Val(delta).content ELSE None
            IN  /\ events' = IF Truthy(content)
                             THEN Append(events,
                                         [part |-> TextPart(Val(content)),
                                          at |-> At(Len(delivered) + 1, 1, 0, "text")])
                             ELSE events
                /\ UNCHANGED << state, failure >>
    /\ UNCHANGED << thinkingActive, reportedText, reportedToolCall, toolCallAccum,
                    cancelled, aborted, sendVars >>
    /\ UNCHANGED instanceVars

\* part_000:153-179: the stream is exhausted
LegacyStreamEnd ==
    /\ state = "Streaming"
    /\ state' = "Completed"
    /\ UNCHANGED << events, thinkingActive, reportedText, reportedToolCall,
                    toolCallAccum, cancelled, aborted, failure, delivered, sendVars >>
    /\ UNCHANGED instanceVars

\* part_000:142, 153: the transport rejects
LegacyTransportError ==
    /\ state = "Streaming"
    /\ state' = "Failed"
    /\ failure' = Some(LegacyRethrown(TransportFailure))
    /\ UNCHANGED << events, thinkingActive, reportedText, reportedToolCall,
                    toolCallAccum, cancelled, aborted, delivered, sendVars >>
    /\ UNCHANGED instanceVars

ParseFailure == << "p", "a", "r", "s", "e" >>

LegacyChunks ==
    {OneDelta(Delta(None, Some(Hello), << >>)),
     OneDelta(Delta(None, None, << >>)),
     Chunk(None, None),
     Chunk(Some([message |-> Some(RateLimited)]), None),
     Chunk(Some([message |-> Some(ParseFailure)]), None),
     Chunk(Some([message |-> None]),
           Some(<< Choice(Some(Delta(None, Some(Hello), << >>))) >>))}

LegacyMessages ==
    {UserText,
     HostMessage("System", << HText(SystemText) >>),
     HostMessage("System", << HText(OtherSystemText) >>),
     HostMessage("Assistant", << HToolCall(CallId, << "f" >>, CallInput) >>),
     HostMessage("User", << HText(Hello), HToolResult(CallId, ResultContent) >>)}

InitLegacy ==
    /\ InitInstance
    /\ InitRequest
    /\ hostMessages \in ListsUpTo(LegacyMessages, MaxMessages)
    /\ systemPrompt \in {None, Some(<< " " >>), Some(<< " ", "o", " " >>)}

NextLegacy ==
    \/ LegacyBeginRequest
    \/ LegacyCancel
    \/ \E chunk \in LegacyChunks : LegacyDeliverChunk(chunk)
    \/ LegacyStreamEnd
    \/ LegacyTransportError

SpecLegacy == InitLegacy /\ [][NextLegacy]_vars

-----------------------------------------------------------------------------
(* Cancellation                                                            *)

ChunkEvents == {i \in 1..Len(events) : ChunkDriven(events[i])}

\* C8 as stated: once the cancellation signal is raised while the request is
\* streaming, the transport is aborted, no chunk-driven event is reported any
\* more, and the request does not return to Streaming.
CancelledIsFinal ==
    cancelled =>
        /\ aborted
        /\ Cardinality(ChunkEvents') = Cardinality(ChunkEvents)
        /\ state /= "Streaming" => state' /= "Streaming"

C8_CancellationStopsStream == [][CancelledIsFinal]_vars

-----------------------------------------------------------------------------
(* The system-prompt override                                              *)

SystemPositions(msgs) == {i \in 1..Len(msgs) : msgs[i].role = "system"}

\* C10 as stated: with a non-empty override configured, the messages sent to
\* the transport hold exactly one system message, it is the first one and its
\* content is the override; the other messages are the translated non-system
\* messages in their order.
C10_SingleLeadingSystemMessage ==
    state = "Streaming" /\ Truthy(SystemPromptOverride(systemPrompt)) =>
        /\ SystemPositions(Val(sent)) = {1}
        /\ Val(sent)[1].content = SystemPromptOverride(systemPrompt)
        /\ Tail(Val(sent)) = WithoutSystem(translated)

-----------------------------------------------------------------------------
(* Requests without messages                                               *)

\* C11 as stated: when the translated message list is empty, the request fails
\* with the user-facing error, nothing is handed to the transport and no event
\* is reported, whether or not a system-prompt override is configured.
C11_EmptyTranslationFails ==
    state /= "Idle" /\ translated = << >> =>
        /\ state = "Failed"
        /\ failure = Some(NoMessagesError)
        /\ sent = None
        /\ events = << >>

-----------------------------------------------------------------------------
(* Model listing: resolveModelCapabilities and the descriptors             *)
(* (provider.ts:16-46, 107-123)                                            *)

\* const MODEL_ID_PREFIX = "vscode-openrouter/"
ModelIdPrefix ==
    << "v", "s", "c", "o", "d", "e", "-", "o", "p", "e", "n", "r", "o", "u", "t",
       "e", "r", "/" >>

\* getOpenRouterModelId slicing without the test for the prefix
GetOpenRouterModelIdSlicesAlways(vscodeModelId) ==
    SubSeq(vscodeModelId, Len(ModelIdPrefix) + 1, Len(vscodeModelId))

\* adapter.ts:133-137
GetOpenRouterModelId(vscodeModelId) ==
    IF StartsWith(vscodeModelId, ModelIdPrefix)
    THEN SubSeq(vscodeModelId, Len(ModelIdPrefix) + 1, Len(vscodeModelId))
    ELSE vscodeModelId

RECURSIVE Family(_)
\* model.id.split("/")[0]
Family(id) ==
    IF id = << >> \/ Head(id) = "/" THEN << >> ELSE << Head(id) >> \o Family(Tail(id))

\* an item of the /models response (provider.ts:16-24); every field is optional
\* in what the network returns
ModelData(id, name, contextLength, topProvider, supportedParameters, inputModalities) ==
    [id |-> id, name |-> name, context_length |-> contextLength,
     top_provider |-> topProvider, supported_parameters |-> supportedParameters,
     input_modalities |-> inputModalities]

TopProvider(contextLength, maxCompletionTokens) ==
    [context_length |-> contextLength, max_completion_tokens |-> maxCompletionTokens]

\* a ?? b on optional values
Coalesce(a, b) == IF IsSome(a) THEN a ELSE b

Max(a, b) == IF a >= b THEN a ELSE b

\* provider.ts:34-46; None where the function returns undefined
ResolveModelCapabilities(m) ==
    IF ~Truthy(m.id) THEN None
    ELSE LET top == m.top_provider
             contextLength ==
                 Val(Coalesce(IF IsSome(top) THEN Val(top).context_length ELSE None,
                              Coalesce(m.context_length, Some(0))))
             maxOut ==
                 Val(Coalesce(IF IsSome(top) THEN Val(top).max_completion_tokens
                              ELSE None,
                              Some(16000)))
         IN  Some([name |-> Val(Coalesce(m.name, m.id)),
                   toolCalling |-> IsSome(m.supported_parameters)
                                   /\ "tools" \in Val(m.supported_parameters),
                   vision |-> IsSome(m.input_modalities)
                              /\ "image" \in Val(m.input_modalities),
                   maxInputTokens |-> Max(0, contextLength - 16000),
                   maxOutputTokens |-> maxOut])

\* provider.ts:111-122: vscode.LanguageModelChatInformation
Descriptor(model, cap) ==
    [id |-> ModelIdPrefix \o Val(model.id),
     name |-> cap.name,
     family |-> Family(Val(model.id)),
     version |-> "latest",
     maxInputTokens |-> cap.maxInputTokens,
     maxOutputTokens |-> cap.maxOutputTokens,
     imageInput |-> cap.vision,
     toolCalling |-> cap.toolCalling,
     from |-> model]

RECURSIVE ListModels(_)
\* provider.ts:107-123: the records without an id are skipped
ListModels(models) ==
    IF models = << >> THEN << >>
    ELSE (IF IsSome(ResolveModelCapabilities(Head(models)))
          THEN << Descriptor(Head(models), Val(ResolveModelCapabilities(Head(models)))) >>
          ELSE << >>)
         \o ListModels(Tail(models))

-----------------------------------------------------------------------------
(* The provider instance: getApiKey, provideLanguageModelChatInformation,  *)
(* the head of provideLanguageModelChatResponse and openrouter.manage      *)
(* (provider.ts:62-126, 136-172, extension.ts:12-15)                       *)

\* calls one provider instance is given
MaxCalls == 2

NativeId == << "a", "/", "b" >>

OtherId == << "c" >>

ModelFull ==
    ModelData(Some(NativeId), Some(<< "A" >>), Some(20000),
              Some(TopProvider(Some(32000), Some(8000))), Some({"tools"}), Some({"image"}))

\* a record with none of the optional fields
ModelBare == ModelData(Some(OtherId), None, None, None, None, None)

ModelNoId == ModelData(None, Some(<< "n" >>), Some(8000), None, None, None)

\* a context window smaller than the 16000 tokens taken off it
ModelSmall ==
    ModelData(Some(<< "d" >>), None, Some(8000), Some(TopProvider(None, None)),
              Some({"temperature"}), Some({"text"}))

\* what fetch resolves with: resp.ok, whether the body holds an array, the array
Response(ok, valid, models) == [ok |-> ok, valid |-> valid, models |-> models]

Responses ==
    {Response(FALSE, TRUE, << >>),
     Response(TRUE, FALSE, << >>),
     Response(TRUE, TRUE, << >>),
     Response(TRUE, TRUE, << ModelFull, ModelBare >>),
     Response(TRUE, TRUE, << ModelBare, ModelNoId, ModelSmall >>)}

NewKey == << "n" >>

\* what showInputBox resolves with: dismissed, or a key
PromptInputs == {None, Some(NewKey)}

ModelFilters == {<< >>, << NativeId >>}

\* the model.id a chat request is made for: a listed id, a native one
ChatModelIds == {ModelIdPrefix \o NativeId, OtherId}

ApiKeyRequired == << "API key required" >>

ModelsDenied == << "OpenRouter models 401" >>

InvalidModels == << "Invalid OpenRouter models response" >>

\* a call on the instance: op is "list" or "chat"; pc is where it is suspended
\* ("secret", "prompt", "fetch") or how it ended ("returned", "threw",
\* "streaming" for a chat request whose transport was called); late records
\* that the cache was already populated when the call was made
Call(op, silent, model, late) ==
    [op |-> op, pc |-> "secret", silent |-> silent, model |-> model, key |-> None,
     late |-> late, result |-> None, error |-> None]

Returned(call, list) == [call EXCEPT !.pc = "returned", !.result = Some(list)]

Threw(call, message) == [call EXCEPT !.pc = "threw", !.error = Some(message)]

\* an entry of the network history
NetworkRequest(c, kind, auth, model) ==
    [call |-> c, kind |-> kind, auth |-> auth, model |-> model]

InitProvider ==
    /\ InitRequest
    /\ hostMessages = << UserText >>
    /\ systemPrompt = None
    /\ secret \in {None, Some(StoredKey)}
    /\ cachedModels = None
    /\ modelFilter \in ModelFilters
    /\ calls = << >>
    /\ network = << >>
    /\ reqs = << >>

\* the host asks for the model list
StartListing(silent) ==
    /\ Len(calls) < MaxCalls
    /\ calls' = Append(calls, Call("list", silent, << >>, IsSome(cachedModels)))
    /\ UNCHANGED << secret, cachedModels, modelFilter, network, reqs, streamVars, sendVars >>

\* the host starts a chat request for a model
StartChat(model) ==
    /\ Len(calls) < MaxCalls
    /\ calls' = Append(calls, Call("chat", FALSE, model, IsSome(cachedModels)))
    /\ UNCHANGED << secret, cachedModels, modelFilter, network, reqs, streamVars, sendVars >>

\* AfterGetApiKey testing this._cachedModels before the key
AfterGetApiKeyCacheFirst(c, key) ==
    LET call == [calls[c] EXCEPT !.key = key]
    IN  IF call.op = "list"
        THEN IF IsSome(cachedModels)
             THEN /\ calls' = [calls EXCEPT ![c] = Returned(call, Val(cachedModels))]
                  /\ network' = network
             ELSE IF ~Truthy(key) /\ call.silent
             THEN /\ calls' = [calls EXCEPT ![c] = Returned(call, << >>)]
                  /\ network' = network
             ELSE /\ calls' = [calls EXCEPT ![c] = [call EXCEPT !.pc = "fetch"]]
                  /\ network' = Append(network, NetworkRequest(c, "models", key, << >>))
        ELSE IF ~Truthy(key)
             THEN /\ calls' = [calls EXCEPT ![c] = Threw(call, ApiKeyRequired)]
                  /\ network' = network
             ELSE /\ calls' = [calls EXCEPT ![c] = [call EXCEPT !.pc = "streaming"]]
                  /\ network' = Append(network,
                                       NetworkRequest(c, "chat", key,
                                                      GetOpenRouterModelId(call.model)))

\* AfterGetApiKey without the test of this._cachedModels
AfterGetApiKeyIgnoresCache(c, key) ==
    LET call == [calls[c] EXCEPT !.key = key]
    IN  IF call.op = "list"
        THEN IF ~Truthy(key) /\ call.silent
             THEN /\ calls' = [calls EXCEPT ![c] = Returned(call, << >>)]
                  /\ network' = network
             ELSE /\ calls' = [calls EXCEPT ![c] = [call EXCEPT !.pc = "fetch"]]
                  /\ network' = Append(network, NetworkRequest(c, "models", key, << >>))
        ELSE IF ~Truthy(key)
             THEN /\ calls' = [calls EXCEPT ![c] = Threw(call, ApiKeyRequired)]
                  /\ network' = network
             ELSE /\ calls' = [calls EXCEPT ![c] = [call EXCEPT !.pc = "streaming"]]
                  /\ network' = Append(network,
                                       NetworkRequest(c, "chat", key,
                                                      GetOpenRouterModelId(call.model)))

\* provider.ts:82-100 for a listing call, 137-172 for a chat request: what runs
\* once getApiKey has returned key
AfterGetApiKey(c, key) ==
    LET call == [calls[c] EXCEPT !.key = key]
    IN  IF call.op = "list"
        THEN IF ~Truthy(key) /\ call.silent
             THEN /\ calls' = [calls EXCEPT ![c] = Returned(call, << >>)]
                  /\ network' = network
             ELSE IF IsSome(cachedModels)
             THEN /\ calls' = [calls EXCEPT ![c] = Returned(call, Val(cachedModels))]
                  /\ network' = network
             ELSE /\ calls' = [calls EXCEPT ![c] = [call EXCEPT !.pc = "fetch"]]
                  /\ network' = Append(network, NetworkRequest(c, "models", key, << >>))
        ELSE IF ~Truthy(key)
             THEN /\ calls' = [calls EXCEPT ![c] = Threw(call, ApiKeyRequired)]
                  /\ network' = network
             ELSE /\ calls' = [calls EXCEPT ![c] = [call EXCEPT !.pc = "streaming"]]
                  /\ network' = Append(network,
                                       NetworkRequest(c, "chat", key,
                                                      GetOpenRouterModelId(call.model)))

\* provider.ts:63-64: secrets.get resolves
SecretRead(c) ==
    /\ c \in 1..Len(calls)
    /\ calls[c].pc = "secret"
    /\ IF ~Truthy(secret) /\ ~calls[c].silent
       THEN /\ calls' = [calls EXCEPT ![c].pc = "prompt"]
            /\ network' = network
       ELSE AfterGetApiKey(c, secret)
    /\ UNCHANGED << secret, cachedModels, modelFilter, reqs, streamVars, sendVars >>

\* provider.ts:65-72: showInputBox resolves, a key that was entered is stored
PromptAnswered(c, input) ==
    /\ c \in 1..Len(calls)
    /\ calls[c].pc = "prompt"
    /\ secret' = IF Truthy(input) THEN input ELSE secret
    /\ AfterGetApiKey(c, input)
    /\ UNCHANGED << cachedModels, modelFilter, reqs, streamVars, sendVars >>

\* FetchResponse storing an empty list where the response is refused or invalid
FetchResponseMemoizesFailure(c, resp) ==
    /\ c \in 1..Len(calls)
    /\ calls[c].pc = "fetch"
    /\ IF ~resp.ok
       THEN /\ calls' = [calls EXCEPT ![c] = Threw(@, ModelsDenied)]
            /\ cachedModels' = Some(<< >>)
       ELSE IF ~resp.valid
       THEN /\ calls' = [calls EXCEPT ![c] = Threw(@, InvalidModels)]
            /\ cachedModels' = Some(<< >>)
       ELSE /\ cachedModels' = Some(ListModels(resp.models))
            /\ calls' = [calls EXCEPT ![c] = Returned(@, ListModels(resp.models))]
    /\ UNCHANGED << secret, modelFilter, network, reqs, streamVars, sendVars >>

\* provider.ts:101-125: fetch resolves
FetchResponse(c, resp) ==
    /\ c \in 1..Len(calls)
    /\ calls[c].pc = "fetch"
    /\ IF ~resp.ok
       THEN /\ calls' = [calls EXCEPT ![c] = Threw(@, ModelsDenied)]
            /\ cachedModels' = cachedModels
       ELSE IF ~resp.valid
       THEN /\ calls' = [calls EXCEPT ![c] = Threw(@, InvalidModels)]
            /\ cachedModels' = cachedModels
       ELSE /\ cachedModels' = Some(ListModels(resp.models))
            /\ calls' = [calls EXCEPT ![c] = Returned(@, ListModels(resp.models))]
    /\ UNCHANGED << secret, modelFilter, network, reqs, streamVars, sendVars >>

\* provider.ts:91-100: fetch rejects
FetchError(c) ==
    /\ c \in 1..Len(calls)
    /\ calls[c].pc = "fetch"
    /\ calls' = [calls EXCEPT ![c] = Threw(@, TransportFailure)]
    /\ UNCHANGED << secret, cachedModels, modelFilter, network, reqs, streamVars, sendVars >>

\* extension.ts:12-15: the openrouter.manage command
ResetApiKey ==
    /\ IsSome(secret)
    /\ secret' = None
    /\ UNCHANGED << cachedModels, modelFilter, calls, network, reqs, streamVars, sendVars >>

NextProvider ==
    \/ \E silent \in BOOLEAN : StartListing(silent)
    \/ \E model \in ChatModelIds : StartChat(model)
    \/ \E c \in 1..MaxCalls : SecretRead(c)
    \/ \E c \in 1..MaxCalls, input \in PromptInputs : PromptAnswered(c, input)
    \/ \E c \in 1..MaxCalls, resp \in Responses : FetchResponse(c, resp)
    \/ \E c \in 1..MaxCalls : FetchError(c)
    \/ ResetApiKey

SpecProvider == InitProvider /\ [][NextProvider]_vars

-----------------------------------------------------------------------------
(* Calls without an API key                                                *)

\* the call has been through getApiKey and the prompt, and got no key
NoKeyResolved(c) ==
    /\ calls[c].pc \notin {"secret", "prompt"}
    /\ ~calls[c].silent
    /\ ~Truthy(calls[c].key)

RequestsOf(c) == {i \in 1..Len(network) : network[i].call = c}

\* C12 as stated: a listing call or a chat request for which no key is in the
\* secret store and none is entered at the prompt throws the authentication
\* error and makes no network request.
C12_NoKeyNoRequest ==
    \A c \in 1..Len(calls) :
        NoKeyResolved(c) =>
            /\ calls[c].pc = "threw"
            /\ calls[c].error = Some(ApiKeyRequired)
            /\ RequestsOf(c) = {}

-----------------------------------------------------------------------------
(* The model-list cache                                                    *)

ModelsRequests == {i \in 1..Len(network) : network[i].kind = "models"}

\* what a step of call c may do once the cache is populated: c is a listing
\* call made after that, or a chat request
KeepsCache(c) ==
    /\ cachedModels' = cachedModels
    /\ Cardinality(ModelsRequests') = Cardinality(ModelsRequests)
    /\ calls'[c].pc \notin {"fetch", "threw"} \/ calls[c].op = "chat"
    /\ calls[c].op = "list" /\ calls'[c].pc = "returned" /\ Val(calls'[c].result) /= << >>
       => calls'[c].result = cachedModels

CacheOutlivesCalls ==
    /\ \A c \in 1..Len(calls) :
           /\ calls'[c] /= calls[c]
           /\ (calls[c].op = "list" /\ calls[c].late) \/ calls[c].op = "chat"
           => KeepsCache(c)
    /\ secret' /= secret => cachedModels' = cachedModels

\* C13: a listing call made after a listing has succeeded makes no models
\* request, never changes the cached list and, when it returns models, returns
\* the cached list; chat requests and resets of the API key leave the cache and
\* the number of models requests as they are.
C13_CacheOutlivesCalls == [][CacheOutlivesCalls]_vars

\* a listing made after the first one succeeded returned the cached models
\* without a second models request
C13_Witness ==
    \E c \in 1..Len(calls) :
        /\ calls[c].op = "list"
        /\ calls[c].late
        /\ calls[c].pc = "returned"
        /\ calls[c].result = cachedModels
        /\ Val(cachedModels) /= << >>
        /\ Cardinality(ModelsRequests) = 1

\* once populated, the cache keeps its value
CacheReadOnly == IsSome(cachedModels) => cachedModels' = cachedModels

\* C14 as stated: whatever the interleaving of the listing calls, the cache is
\* populated at most once and never written again.
C14_CachePopulatedOnce == [][CacheReadOnly]_vars

-----------------------------------------------------------------------------
(* The model filter                                                        *)

\* the id is on the allow list, with or without the provider prefix
Allowed(id) ==
    \E k \in 1..Len(modelFilter) :
        id = modelFilter[k] \/ id = ModelIdPrefix \o modelFilter[k]

\* C15 as stated: with a non-empty openrouter.modelFilter, every listing call,
\* served from the cache or not, returns only models whose id is on the list.
C15_ListingFiltered ==
    \A c \in 1..Len(calls) :
        calls[c].op = "list" /\ calls[c].pc = "returned" /\ modelFilter /= << >> =>
            \A i \in 1..Len(Val(calls[c].result)) : Allowed(Val(calls[c].result)[i].id)

-----------------------------------------------------------------------------
(* Token bounds of the listed models                                       *)

\* the record has no context length and no maximum of completion tokens
MissingBounds(m) ==
    /\ ~IsSome(m.context_length)
    /\ IsSome(m.top_provider) =>
           /\ ~IsSome(Val(m.top_provider).context_length)
           /\ ~IsSome(Val(m.top_provider).max_completion_tokens)

\* C16 as stated: a listed model whose record has neither bound gets
\* maxInputTokens = 4096 and maxOutputTokens = 4096, and no listed model has a
\* negative bound.
C16_FallbackBounds ==
    IsSome(cachedModels) =>
        \A i \in 1..Len(Val(cachedModels)) :
            LET d == Val(cachedModels)[i]
            IN  /\ d.maxInputTokens >= 0
                /\ d.maxOutputTokens >= 0
                /\ MissingBounds(d.from) =>
                       d.maxInputTokens = 4096 /\ d.maxOutputTokens = 4096

-----------------------------------------------------------------------------
(* Model ids of chat requests                                              *)

\* ids as the provider names its models, one of them beginning with the prefix
NativeIds == {NativeId, OtherId, << >>, << "/" >>, ModelIdPrefix \o OtherId}

\* ids without the prefix: native ones, and beginnings of the prefix
PlainIds ==
    {NativeId, OtherId, << >>, SubSeq(ModelIdPrefix, 1, 6),
     SubSeq(ModelIdPrefix, 1, Len(ModelIdPrefix) - 1),
     Tail(ModelIdPrefix) \o NativeId}

\* the ids the listing hands out (provider.ts:112, adapter.ts:17), and plain ones
AnyModelIds == {ModelIdPrefix \o x : x \in NativeIds} \cup PlainIds

NextChat ==
    \/ \E model \in AnyModelIds : StartChat(model)
    \/ \E c \in 1..MaxCalls : SecretRead(c)
    \/ \E c \in 1..MaxCalls, input \in PromptInputs : PromptAnswered(c, input)
    \/ ResetApiKey

\* chat requests up to the call of the transport, for any model id
SpecChat == InitProvider /\ [][NextChat]_vars

ChatRequests == {i \in 1..Len(network) : network[i].kind = "chat"}

\* C17: the model id sent to the transport is the native id x when the request
\* was made for prefix + x, and the id itself when the request was made for an
\* id that does not start with the prefix; every chat request that has a key
\* reaches the transport, whatever its model id.
C17_ModelIdRoundTrip ==
    /\ \A i \in ChatRequests :
           LET given == calls[network[i].call].model
           IN  /\ \A x \in NativeIds :
                      given = ModelIdPrefix \o x => network[i].model = x
               /\ ~StartsWith(given, ModelIdPrefix) => network[i].model = given
    /\ \A c \in 1..Len(calls) :
           calls[c].op = "chat" /\ Truthy(calls[c].key) =>
               /\ calls[c].pc = "streaming"
               /\ \E i \in ChatRequests : network[i].call = c

\* one request for a listed id whose native id begins with the prefix, one for
\* a plain id that is the prefix without its last character
C17_Witness ==
    /\ Len(network) = 2
    /\ calls[network[1].call].model = ModelIdPrefix \o ModelIdPrefix \o OtherId
    /\ network[1].model = ModelIdPrefix \o OtherId
    /\ calls[network[2].call].model = SubSeq(ModelIdPrefix, 1, Len(ModelIdPrefix) - 1)
    /\ network[2].model = SubSeq(ModelIdPrefix, 1, Len(ModelIdPrefix) - 1)

-----------------------------------------------------------------------------
(* Chat requests running side by side on one provider instance             *)
(* (provider.ts:174-243, one set of locals per call)                       *)

\* chat requests in flight together
MaxRequests == 2

\* provider.ts:174-177: the locals a call starts with
NewLocals ==
    [events |-> << >>, thinkingActive |-> FALSE, reportedText |-> FALSE,
     reportedToolCall |-> FALSE, accum |-> << >>]

NewRequest == [state |-> "Streaming", delivered |-> << >>, locals |-> NewLocals]

\* the chunks of the streams running side by side
PairChunks ==
    {OneDelta(Delta(Some(Think), None, << >>)),
     OneDelta(Delta(None, Some(Hello), << >>)),
     OneDelta(Delta(None, None, << FragOpen >>)),
     OneDelta(Delta(None, None, << FragClose >>))}

\* the locals of request r as they would be if the four variables of
\* provider.ts:174-177 were fields of the provider instance
RequestLocalsOnInstance(r) ==
    [reqs[r].locals EXCEPT !.thinkingActive = reqs[1].locals.thinkingActive,
                           !.reportedText = reqs[1].locals.reportedText,
                           !.reportedToolCall = reqs[1].locals.reportedToolCall,
                           !.accum = reqs[1].locals.accum]

\* provider.ts:174-177: the locals request r works on are its own
RequestLocals(r) == reqs[r].locals

RECURSIVE Sum(_, _)
Sum(f, n) == IF n = 0 THEN 0 ELSE Len(f[n].delivered) + Sum(f, n - 1)

\* the chunks delivered to all requests together
DeliveredToAll == Sum(reqs, Len(reqs))

InitPair ==
    /\ InitInstance
    /\ InitRequest
    /\ hostMessages = << UserText >>
    /\ systemPrompt = None

\* provider.ts:129-179: a call that got as far as the chunk loop
PairBegin ==
    /\ Len(reqs) < MaxRequests
    /\ reqs' = Append(reqs, NewRequest)
    /\ UNCHANGED << secret, cachedModels, modelFilter, calls, network, streamVars, sendVars >>

\* provider.ts:180-224: the stream of request r yields a chunk
PairDeliverChunk(r, chunk) ==
    /\ r \in 1..Len(reqs)
    /\ reqs[r].state = "Streaming"
    /\ DeliveredToAll < MaxChunks
    /\ reqs' = [reqs EXCEPT
                   ![r].locals = ProcessChunk(RequestLocals(r), chunk,
                                              Len(reqs[r].delivered) + 1),
                   ![r].delivered = Append(@, chunk)]
    /\ UNCHANGED << secret, cachedModels, modelFilter, calls, network, streamVars, sendVars >>

\* provider.ts:226-243: the stream of request r is exhausted
PairStreamEnd(r) ==
    /\ r \in 1..Len(reqs)
    /\ reqs[r].state = "Streaming"
    /\ reqs' = [reqs EXCEPT ![r].locals = FinishStream(RequestLocals(r)),
                            ![r].state = "Completed"]
    /\ UNCHANGED << secret, cachedModels, modelFilter, calls, network, streamVars, sendVars >>

NextPair ==
    \/ PairBegin
    \/ \E r \in 1..MaxRequests, chunk \in PairChunks : PairDeliverChunk(r, chunk)
    \/ \E r \in 1..MaxRequests : PairStreamEnd(r)

SpecPair == InitPair /\ [][NextPair]_vars

RECURSIVE RunAlone(_, _, _)
\* the locals after the chunks from the c-th on, processed with nothing else running
RunAlone(L, chunks, c) ==
    IF c > Len(chunks) THEN L ELSE RunAlone(ProcessChunk(L, chunks[c], c), chunks, c + 1)

\* the events a request produces alone on the chunks it was given
EventsAlone(request) ==
    IF request.state = "Completed"
    THEN FinishStream(RunAlone(NewLocals, request.delivered, 1)).events
    ELSE RunAlone(NewLocals, request.delivered, 1).events

-----------------------------------------------------------------------------
(* OpenRouterAdapter.processStreamChunk and reportToolCalls                *)
(* (adapter.ts:140-186), called by whoever drives a stream with them;      *)
(* toolCallAccum holds the toolCallsByIndex map they are given             *)

\* adapter.ts:155: { args: "" }, id and name not set
NewCur(index) == [index |-> index, id |-> None, name |-> None, args |-> << >>]

\* adapter.ts:155-160, one tool-call fragment
AdapterAccumulate(accum, tc) ==
    LET found == AccPos(accum, tc.index)
        table == IF found = 0 THEN Append(accum, NewCur(tc.index)) ELSE accum
        pos == IF found = 0 THEN Len(table) ELSE found
    IN  [table EXCEPT ![pos] =
            [@ EXCEPT !.id = IF IsSome(tc.id) THEN tc.id ELSE @,
                      !.name = IF IsSome(tc.name) THEN tc.name ELSE @,
                      !.args = IF IsSome(tc.arguments) THEN @ \o Val(tc.arguments)
                               ELSE @]]

RECURSIVE AdapterToolCalls(_, _, _)
\* adapter.ts:153-162
AdapterToolCalls(accum, toolCalls, f) ==
    IF f > Len(toolCalls) THEN accum
    ELSE AdapterToolCalls(AdapterAccumulate(accum, toolCalls[f]), toolCalls, f + 1)

\* index 0, id and name with the first half of {"x":1}
FragStart == Fragment(Some(0), Some(<< "a" >>), Some(<< "f" >>), Some(ArgsOpen))

AdapterChunks ==
    {OneDelta(Delta(None, Some(Hello), << >>)),
     OneDelta(Delta(None, None, << FragStart, FragHead >>)),
     Chunk(None, None),
     Chunk(None, Some(<< Choice(None) >>)),
     Chunk(Some([message |-> Some(RateLimited)]), None),
     Chunk(Some([message |-> None]), None)}
    \cup {OneDelta(Delta(None, None, << f >>)) :
             f \in {FragStart, FragClose, FragHead, FragEmptyObject, FragBrace,
                    FragBlank, FragRename}}

InitAdapter ==
    /\ InitInstance
    /\ state = "Streaming"
    /\ events = << >>
    /\ toolCallAccum = << >>
    /\ delivered = << >>
    /\ failure = None
    /\ thinkingActive = FALSE
    /\ reportedText = FALSE
    /\ reportedToolCall = FALSE
    /\ cancelled = FALSE
    /\ aborted = FALSE
    /\ hostMessages = << UserText >>
    /\ systemPrompt = None
    /\ translated = << >>
    /\ sent = None

\* adapter.ts:140-164: one call of processStreamChunk; failure holds the error
\* message of the last call that returned one
AdapterProcessStreamChunk(chunk) ==
    /\ state = "Streaming"
    /\ Len(delivered) < MaxChunks
    /\ delivered' = Append(delivered, chunk)
    /\ IF IsSome(chunk.error)
       THEN /\ failure' = Some(ErrorMessage(Val(chunk.error)))
            /\ UNCHANGED << events, toolCallAccum >>
       ELSE LET choices == ChoicesOf(chunk)
                delta == IF Len(choices) >= 1 THEN choices[1].delta ELSE None
            IN  /\ failure' = failure
                /\ events' = IF IsSome(delta) /\ Truthy(Val(delta).content)
                             THEN Append(events,
                                         [part |-> TextPart(Val(Val(delta).content)),
                                          at |-> At(Len(delivered) + 1, 1, 0, "text")])
                             ELSE events
                /\ toolCallAccum' = IF IsSome(delta)
                                    THEN AdapterToolCalls(toolCallAccum,
                                                          Val(delta).tool_calls, 1)
                                    ELSE toolCallAccum
    /\ UNCHANGED << state, thinkingActive, reportedText, reportedToolCall, cancelled,
                    aborted, sendVars, instanceVars >>

\* adapter.ts:176-180: JSON.parse(cur.args || "{}"), { raw: cur.args } where it throws
AdapterInput(args) ==
    IF args = << >> THEN EmptyObject
    ELSE IF IsJson(args) THEN JsonParse(args).val
    ELSE JObj(<< [key |-> << "r", "a", "w" >>, val |-> JStr(args)] >>)

RECURSIVE SortedIndices(_)
\* adapter.ts:171: the keys in ascending order
SortedIndices(S) ==
    IF S = {} THEN << >>
    ELSE LET least == CHOOSE x \in S : \A y \in S : Val(x) <= Val(y)
         IN  << least >> \o SortedIndices(S \ {least})

RECURSIVE AdapterReportLoop(_, _, _)
\* adapter.ts:172-185
AdapterReportLoop(evs, accum, indices) ==
    IF indices = << >> THEN evs
    ELSE LET cur == accum[AccPos(accum, Head(indices))]
         IN  AdapterReportLoop(
                 IF IsSome(cur.id) /\ IsSome(cur.name)
                 THEN Append(evs,
                             [part |-> ToolCallPart(Val(cur.id), Val(cur.name),
                                                    AdapterInput(cur.args)),
                              at |-> At(0, 0, AccPos(accum, Head(indices)), "report")])
                 ELSE evs,
                 accum, Tail(indices))

\* adapter.ts:167-186: one call of reportToolCalls, made when the stream is over
AdapterReportToolCalls ==
    /\ state = "Streaming"
    /\ state' = "Completed"
    /\ events' = AdapterReportLoop(events, toolCallAccum,
                                   SortedIndices({toolCallAccum[i].index :
                                                     i \in 1..Len(toolCallAccum)}))
    /\ UNCHANGED << toolCallAccum, delivered, failure, thinkingActive, reportedText,
                    reportedToolCall, cancelled, aborted, sendVars, instanceVars >>

NextAdapter ==
    \/ \E chunk \in AdapterChunks : AdapterProcessStreamChunk(chunk)
    \/ AdapterReportToolCalls

SpecAdapter == InitAdapter /\ [][NextAdapter]_vars

RECURSIVE PlacesOfIndex(_, _)
\* the places of the fragments received for a tool-call index, in arrival order
PlacesOfIndex(places, index) ==
    IF places = << >> THEN << >>
    ELSE (IF FragmentAt(Head(places)).index = index THEN << Head(places) >> ELSE << >>)
         \o PlacesOfIndex(Tail(places), index)

\* C19 as stated, for the map OpenRouterAdapter.processStreamChunk fills: at every
\* point of a stream the argument string of each index is the concatenation, in
\* arrival order, of the argument fragments received for it, and its id and name
\* are the most recent non-empty id and name received for it (unset while none
\* has arrived), so that an absent or empty id or name changes nothing.
C19_AccumulatorFollowsFragments ==
    LET places == PlacesFrom(1, 1, 1)
    IN  \A i \in 1..Len(toolCallAccum) :
            LET cur == toolCallAccum[i]
                received == PlacesOfIndex(places, cur.index)
            IN  /\ cur.args = ConcatArguments(received)
                /\ (IF IsSome(cur.id) THEN Val(cur.id) ELSE << >>) = LastId(received)
                /\ (IF IsSome(cur.name) THEN Val(cur.name) ELSE << >>)
                       = LastName(received)

-----------------------------------------------------------------------------
(* The translation of the host messages, part by part                      *)

\* the content parts the translation has a provider message for
Supported(part) ==
    \/ part.kind \in {"text", "toolResult", "toolCall"}
    \/ part.kind = "data" /\ StartsWith(part.mimeType, ImagePrefix)

\* msg is the provider message for the host part at mp
TranslationOf(msg, mp) ==
    LET part == PartAt(mp)
        role == ConvertRole(hostMessages[mp[1]].role)
    IN  \/ /\ part.kind = "text"
           /\ msg.role = role
           /\ msg.content = Some(part.value)
           /\ msg.toolCallId = None /\ msg.toolCalls = << >> /\ msg.image = None
        \/ /\ part.kind = "toolResult"
           /\ msg.role = "tool"
           /\ msg.toolCallId = Some(part.callId)
           /\ msg.content = Some(JsonStringify(part.json))
           /\ msg.toolCalls = << >> /\ msg.image = None
        \/ /\ part.kind = "toolCall"
           /\ msg.role = "assistant"
           /\ msg.content = None /\ msg.toolCallId = None /\ msg.image = None
           /\ msg.toolCalls = << [id |-> part.callId, type |-> "function",
                                  name |-> part.name,
                                  arguments |-> JsonStringify(part.json)] >>
        \/ /\ part.kind = "data"
           /\ msg.role = role
           /\ msg.image = Some(DataUrl(part.mimeType, part.data))
           /\ msg.content = None /\ msg.toolCallId = None /\ msg.toolCalls = << >>

\* C20: vscodeMessagesToOpenRouter returns, for every list of host messages
\* (data parts of any MIME type and unrecognized parts included), exactly one
\* provider message per text, tool-result, tool-call and image data part, each
\* the translation of its part, in message order and then part order; other
\* data parts and unrecognized parts yield no provider message.
C20_TranslationPartByPart ==
    state /= "Idle" =>
        /\ \A mp \in HostParts :
               Cardinality(MadeFrom(mp)) = IF Supported(PartAt(mp)) THEN 1 ELSE 0
        /\ \A i \in 1..Len(translated) :
               /\ translated[i].src \in HostParts
               /\ TranslationOf(translated[i], translated[i].src)
        /\ \A i, j \in 1..Len(translated) :
               i < j =>
                   \/ translated[i].src[1] < translated[j].src[1]
                   \/ /\ translated[i].src[1] = translated[j].src[1]
                      /\ translated[i].src[2] < translated[j].src[2]

\* a message with an image and a text, followed by one with a PDF only, has been
\* translated to the image message and the text message, in that order
C20_Witness ==
    /\ state /= "Idle"
    /\ hostMessages = << HostMessage("User", << HData(PngType, << 77, 97 >>), HText(Hello) >>),
                         HostMessage("User", << HData(PdfType, << 77 >>) >> ) >>
    /\ Len(translated) = 2
    /\ IsSome(translated[1].image)
    /\ translated[2].content = Some(Hello)

-----------------------------------------------------------------------------
(* The family of a listed model                                            *)

\* the sentinel after ?? in provider.ts:114
UnknownFamily == << "u", "n", "k", "n", "o", "w", "n" >>

\* the positions of "/" in a native id
SlashesOf(id) == {k \in 1..Len(id) : id[k] = "/"}

\* C21 as stated: the family of every listed model is the part of its native id
\* before the first "/", and is "unknown" when the native id holds no "/".
C21_FamilyOfNativeId ==
    IsSome(cachedModels) =>
        \A i \in 1..Len(Val(cachedModels)) :
            LET d == Val(cachedModels)[i]
                id == Val(d.from.id)
                slashes == SlashesOf(id)
            IN  IF slashes = {}
                THEN d.family = UnknownFamily
                ELSE d.family
                         = SubSeq(id, 1, (CHOOSE k \in slashes :
                                              \A j \in slashes : k <= j) - 1)

-----------------------------------------------------------------------------
(* No attempted tool call is dropped                                       *)

\* the places << chunk, choice, fragment >> of the tool-call fragments delivered
PlacesDelivered ==
    UNION {UNION {{<< c, k, f >> :
                      f \in 1..(IF IsSome(ChoicesOf(delivered[c])[k].delta)
                                THEN Len(Val(ChoicesOf(delivered[c])[k].delta).tool_calls)
                                ELSE 0)} :
                  k \in 1..Len(ChoicesOf(delivered[c]))} :
           c \in 1..Len(delivered)}

\* the tool-call indexes that received a fragment
IndexesReceived == {IndexOf(FragmentAt(pl)) : pl \in PlacesDelivered}

\* pl is the place of the last fragment received for its index
IsLastPlace(places, pl) ==
    \A q \in places :
        IndexOf(FragmentAt(q)) = IndexOf(FragmentAt(pl)) => ~Before(pl, q)

\* the place of the last fragment received for an index
LastPlaceOf(index) ==
    CHOOSE pl \in PlacesDelivered :
        IndexOf(FragmentAt(pl)) = index /\ IsLastPlace(PlacesDelivered, pl)

\* every tool-call index that received a fragment has an accumulator and a
\* tool-call event with that accumulator's id and name, reported after the last
\* fragment of the index or as its fallback
NoToolCallDropped ==
    LET places == PlacesDelivered
    IN  \A pl \in places :
            IsLastPlace(places, pl) =>
                \E a \in 1..Len(toolCallAccum) :
                    /\ toolCallAccum[a].index = IndexOf(FragmentAt(pl))
                    /\ \E i \in EventsFor(pl) \cup FallbacksOf(a) :
                           /\ events[i].part.kind = "toolCall"
                           /\ events[i].part.callId = toolCallAccum[a].id
                           /\ events[i].part.name = toolCallAccum[a].name

\* C22: whenever a stream reaches Completed, every tool-call index that
\* received a fragment has an accumulator, and a tool-call event carries that
\* accumulator's final id and name: the event reported after the last fragment
\* of the index, or the fallback reported for it when the stream ends.
C22_NoToolCallDropped == [][state' = "Completed" => NoToolCallDropped']_vars

\* two indexes, one whose arguments never parse and one with none: the first
\* is reported by the fallback, the second after its fragment
C22_Witness ==
    /\ state = "Completed"
    /\ IndexesReceived = {0, 1}
    /\ \E a \in 1..Len(toolCallAccum) :
           /\ FallbacksOf(a) /= {}
           /\ EventsFor(LastPlaceOf(toolCallAccum[a].index)) = {}
    /\ \E a \in 1..Len(toolCallAccum) :
           /\ FallbacksOf(a) = {}
           /\ EventsFor(LastPlaceOf(toolCallAccum[a].index)) /= {}

-----------------------------------------------------------------------------
(* Thinking markers                                                        *)

RECURSIVE DeltasFrom(_, _)
\* the deltas the chunk loop has processed, from choice k of chunk c on, in the
\* order it visits them (a choice without delta is passed over)
DeltasFrom(c, k) ==
    IF c > Len(delivered) THEN << >>
    ELSE IF k > Len(ChoicesOf(delivered[c])) THEN DeltasFrom(c + 1, 1)
    ELSE (IF IsSome(ChoicesOf(delivered[c])[k].delta)
          THEN << Val(ChoicesOf(delivered[c])[k].delta) >> ELSE << >>)
         \o DeltasFrom(c, k + 1)

\* the number of maximal runs of consecutive reasoning-bearing deltas
ReasoningRuns(deltas) ==
    Cardinality({n \in 1..Len(deltas) :
                    /\ Truthy(deltas[n].reasoning)
                    /\ n > 1 => ~Truthy(deltas[n - 1].reasoning)})

\* the positions of the thinking events and thinking-closed markers
ThinkingRelated == {i \in 1..Len(events) : events[i].part.kind = "thinking"}

\* the last of the thinking-related events before position i is a thinking event
OpenBefore(thinking, i) ==
    \E j \in thinking :
        /\ j < i
        /\ IsThinking(events[j])
        /\ \A k \in thinking : ~(j < k /\ k < i)

\* the thinking events and thinking-closed markers reported so far are well
\* formed
ThinkingMarkersWellFormed ==
    LET thinking == ThinkingRelated
        closed == {i \in thinking : events[i].part.done}
    IN  /\ \A i \in closed : OpenBefore(thinking, i)
        /\ state = "Completed" =>
               /\ \A i \in thinking \ closed : \E k \in closed : k > i
               /\ Cardinality(closed) = ReasoningRuns(DeltasFrom(1, 1))

\* C23: after every step of a request, a thinking-closed marker has been
\* reported only while a segment was open (never as the first thinking-related
\* event, never twice without a thinking event in between); when the request
\* is Completed no segment is left open,
\* and the number of thinking-closed markers is the number of maximal runs of
\* consecutive reasoning-bearing deltas.
C23_ThinkingMarkersWellFormed == [][ThinkingMarkersWellFormed']_vars

\* chunks [reasoning, content, reasoning] gave two segments, the first closed
\* by the content delta and the second when the stream ended
C23_Witness ==
    /\ state = "Completed"
    /\ delivered = << OneDelta(Delta(Some(Think), None, << >>)),
                      OneDelta(Delta(None, Some(Hello), << >>)),
                      OneDelta(Delta(Some(Think), None, << >>)) >>
    /\ Len(events) = 5
    /\ events[2].at.site = "reasoningDone"
    /\ IsThinking(events[4])
    /\ events[5].at.site = "close"
    /\ IsThinkingClosed(events[5])

-----------------------------------------------------------------------------
(* Listing calls that fail                                                 *)

\* the listing call c ends with an error in this step
ListingFails(c) ==
    /\ calls[c].op = "list"
    /\ calls[c].pc /= "threw"
    /\ calls'[c].pc = "threw"

\* the listing call c comes out of getApiKey in this step, with a key or not
\* silent, while the cache is unset
ListingTestsUnsetCache(c) ==
    /\ calls[c].op = "list"
    /\ calls[c].pc \in {"secret", "prompt"}
    /\ calls'[c].pc \notin {"secret", "prompt"}
    /\ Truthy(calls'[c].key) \/ ~calls[c].silent
    /\ ~IsSome(cachedModels)

FailureNotMemoized ==
    /\ \A c \in 1..Len(calls) : ListingFails(c) => cachedModels' = cachedModels
    /\ cachedModels' /= cachedModels =>
           \E c \in 1..Len(calls) :
               /\ calls[c].pc = "fetch"
               /\ calls'[c].pc = "returned"
               /\ Some(Val(calls'[c].result)) = cachedModels'
    /\ \A c \in 1..Len(calls) :
           ListingTestsUnsetCache(c) =>
               /\ calls'[c].pc = "fetch"
               /\ network' = Append(network,
                                    NetworkRequest(c, "models", calls'[c].key, << >>))

\* C24: a listing call that fails (response refused, payload not an array,
\* transport error or cancellation) leaves the model cache as it was; the cache
\* is only ever set by a call whose fetch succeeded, to the list that call
\* returns; and a listing call that finds the cache unset makes the network
\* call, whatever earlier calls failed.
C24_FailureNotMemoized == [][FailureNotMemoized]_vars

\* the first listing call failed, the cache is unset and the second one has
\* made the network call again
C24_Witness ==
    /\ Len(calls) = 2
    /\ calls[1].op = "list" /\ calls[1].pc = "threw" /\ calls[1].error = Some(ModelsDenied)
    /\ calls[2].op = "list" /\ calls[2].pc = "fetch"
    /\ ~IsSome(cachedModels)
    /\ Len(network) = 2
    /\ network[1].call = 1 /\ network[2].call = 2

-----------------------------------------------------------------------------
(* Silent listing calls without a key                                      *)

\* secrets.get resolves for the silent listing call c while no key is stored
SilentReadsNoKey(c) ==
    /\ calls[c].op = "list"
    /\ calls[c].silent
    /\ calls[c].pc = "secret"
    /\ ~Truthy(secret)
    /\ calls'[c] /= calls[c]

SilentWithoutKey ==
    /\ \A c \in 1..Len(calls) : calls[c].silent => calls[c].pc /= "prompt"
    /\ \A c \in 1..Len(calls) :
           SilentReadsNoKey(c) =>
               /\ calls'[c].pc = "returned"
               /\ calls'[c].result = Some(<< >>)
               /\ network' = network
               /\ cachedModels' = cachedModels
               /\ secret' = secret

\* C25: a silent listing call made while no key is stored never prompts; it
\* returns the empty list, whatever the model cache holds, and makes no network
\* request and no change to the model cache or to the secret store.
C25_SilentWithoutKey == [][SilentWithoutKey]_vars

\* the cache holds two models, the key has been removed, and a silent listing
\* call has returned the empty list with no request of its own
C25_Witness ==
    /\ Len(calls) = 2
    /\ IsSome(cachedModels) /\ Len(Val(cachedModels)) = 2
    /\ ~IsSome(secret)
    /\ calls[2].op = "list" /\ calls[2].silent /\ calls[2].late
    /\ calls[2].pc = "returned"
    /\ calls[2].result = Some(<< >>)
    /\ RequestsOf(2) = {}

=============================================================================
